---- MODULE Spec2Model ----
(***************************************************************************)
(* Workspace file index of vs-markdown-file-path-completion:               *)
(*   LRUCache and FileCache (src/cache.ts), the FileScanner with its       *)
(*   scans, exclusions and searches (src/fileScanner.ts), the FuzzySearcher*)
(*   (src/fuzzySearch.ts) and the path helpers of src/utils.ts.            *)
(* Strings are sequences of one-character strings, so that prefixing,      *)
(* joining and slicing of paths are computed as the code computes them.    *)
(*                                                                         *)
(* Specifications:                                                         *)
(*   SpecLRU        an LRUCache under get / set / has / clear              *)
(*   Spec           the FileScanner with its FileCache, the files on disk, *)
(*                  the watchers and the clock                             *)
(*   SpecFileCache  Spec plus FileCache.invalidateWorkspace, which the     *)
(*                  FileScanner itself never calls                         *)
(*   SpecScan       direct calls of scanFolder and matchesGitignorePattern *)
(*                  over several trees, .gitignore files and settings      *)
(*   SpecValidity   a FileCache constructed with a validity duration, as   *)
(*                  the cache tests construct it                           *)
(*   SpecSearch     getMatchingFiles / getMatchingFilesAsync with their    *)
(*                  tokens, the query cache, invalidation and dispose;     *)
(*                  SpecSearchLive adds a consumer that keeps reading      *)
(*   SpecSearchEmpty   SpecSearch with the empty query                     *)
(*   SpecUnreadable scans and searches over folders and .gitignore files   *)
(*                  that cannot be read                                    *)
(*   SpecConcurrent two callers whose searches and scans overlap           *)
(*   SpecFuzzy      direct calls of FuzzySearcher.search and of the        *)
(*                  scoring of getMatchingFiles over small inputs          *)
(*   SpecExclude    direct calls of scanFolder under the default exclude   *)
(*                  patterns                                               *)
(*   SpecRebuild    files created while the first scan of a root runs      *)
(*   SpecMergeSearch   searches between the merges of the watcher          *)
(*   SpecRepeat     searches and nothing else                              *)
(*   SpecConfig     the ConfigurationManager (src/config.ts) and its       *)
(*                  listeners                                              *)
(*                                                                         *)
(* Scale: the FileScanner builds FileCache(10) and evicts with an eleventh *)
(* workspace folder; here the cache holds 1..MaxCap roots of a workspace   *)
(* of two folders.  FileCacheEntry.version is written and never read; it   *)
(* is left out.  A step is one turn of the event loop: code runs from one  *)
(* await of a filesystem read to the next without interleaving.            *)
(***************************************************************************)
EXTENDS Integers, Sequences, FiniteSets, TLC

VARIABLES
    \* ---- LRUCache<K,V> on its own (SpecLRU) ----
    lru,            \* LRUCache.cache: Map in insertion order, <<[key, value], ...>>
    lruMax,         \* LRUCache.maxSize
    lruStamp,       \* history: key -> logical time of its last get-hit or set
    lruClock,       \* history: number of operations performed so far
    lruRet,         \* history: value returned by the last operation
    \* ---- FileCache ----
    cache,          \* FileCache.cache: LRUCache from workspace path to its file list
    maxSize,        \* maxSize the FileCache was constructed with
    fileWatchers,   \* FileCache.fileWatchers: the workspace paths with a live watcher
    pendingUpdates, \* FileCache.pendingUpdates: workspace path -> Set of update strings
    updateDebounceTimers, \* FileCache.updateDebounceTimers: workspace path -> ms left
    \* ---- FileScanner and its environment ----
    disk,           \* workspace path -> the relative paths of the files that exist
    scans,          \* scanWorkspace call -> its position and locals
    \* ---- history ----
    sinceEvent,     \* workspace path -> ms since its last file notification (capped)
    mustRescan,     \* workspace path -> invalidated and not yet asked for again
    events,         \* number of file creations and deletions so far
    \* ---- configuration and .gitignore files ----
    config,         \* the resolved ExtensionConfig of the workspace folders
    gitignores,     \* folder path -> the lines of its .gitignore file
    unreadable,     \* the paths whose readdir or readFile fails (permissions)
    \* ---- direct calls (SpecScan, SpecValidity) ----
    probe,          \* the arguments and the result of the last call
    validityDuration, \* second argument the FileCache was constructed with
    sinceSet,       \* workspace path -> ms since its last setCachedFiles (capped)
    \* ---- FileScanner: searches ----
    searchCache,    \* HierarchicalSearchCache: LRU map from query to its matches
    searches,       \* getMatchingFiles call -> its position, locals and token
    listening,      \* globalFileWatcher and configChangeListener are registered
    staleQueries,   \* history: cached queries stored before the last invalidation
    \* ---- ConfigurationManager ----
    listeners,      \* ConfigurationManager.listeners: the callbacks, in order
    disposables,    \* ConfigurationManager.disposables
    lastChange      \* history: who was registered at the last change, who got what

lruVars == <<lru, lruMax, lruStamp, lruClock, lruRet>>
cacheVars == <<cache, maxSize, fileWatchers, pendingUpdates, updateDebounceTimers>>
envVars == <<disk, scans>>
histVars == <<sinceEvent, mustRescan, events>>
cfgVars == <<config, gitignores, unreadable>>
mgrVars == <<listeners, disposables, lastChange>>
testVars == <<probe, validityDuration, sinceSet, mgrVars>>
searchVars == <<searchCache, searches, listening, staleQueries>>
vars == <<lruVars, cacheVars, envVars, histVars, cfgVars, testVars, searchVars>>

-----------------------------------------------------------------------------
(* Bounds *)
MaxCap == 2          \* largest maxSize a cache is constructed with
MaxLruOps == 5       \* operations performed on the stand-alone LRUCache
MaxEvents == 3       \* file creations and deletions on disk
TickMs == 250        \* granularity of the passage of time, in ms

\* FileCache.debounceDelay
debounceDelay == 500
\* default of scanFolder's maxFiles parameter
maxFiles == 10000

LruKeys == {"k1", "k2", "k3"}
LruValues == {"v1", "v2"}
Undefined == "undefined"

\* no matcher has been called
NoProbe == [fn |-> "none"]

\* the callbacks handed to onConfigChange, and those of them that dispose
\* their own subscription when they are called
Listeners == {"l1", "l2", "l3"}
DisposesItself == {"l1", "l3"}
\* no configuration change has been seen
NoChange == [registered |-> {}, received |-> [l \in Listeners |-> <<>>]]

-----------------------------------------------------------------------------
(* Strings: sequences of one-character strings *)

StartsWith(s, p) == Len(p) <= Len(s) /\ SubSeq(s, 1, Len(p)) = p

\* String.prototype.substring(n)
Substring(s, n) == SubSeq(s, n + 1, Len(s))

\* String.prototype.includes
Includes(s, p) == \E i \in 0..(Len(s) - Len(p)) : SubSeq(s, i + 1, i + Len(p)) = p

UpperCase == <<"A", "B", "C", "D", "E", "F", "G", "H", "I", "J", "K", "L", "M",
               "N", "O", "P", "Q", "R", "S", "T", "U", "V", "W", "X", "Y", "Z">>
LowerCase == <<"a", "b", "c", "d", "e", "f", "g", "h", "i", "j", "k", "l", "m",
               "n", "o", "p", "q", "r", "s", "t", "u", "v", "w", "x", "y", "z">>

LowerChar(c) ==
    IF \E i \in 1..26 : UpperCase[i] = c
    THEN LowerCase[CHOOSE i \in 1..26 : UpperCase[i] = c]
    ELSE c

\* String.prototype.toLowerCase
ToLowerCase(s) == [i \in 1..Len(s) |-> LowerChar(s[i])]

\* String.prototype.split("/")
RECURSIVE SplitAcc(_, _, _)
SplitAcc(s, cur, acc) ==
    IF s = <<>> THEN Append(acc, cur)
    ELSE IF Head(s) = "/" THEN SplitAcc(Tail(s), <<>>, Append(acc, cur))
    ELSE SplitAcc(Tail(s), Append(cur, Head(s)), acc)

SplitSlash(s) == SplitAcc(s, <<>>, <<>>)

\* String.prototype.endsWith
EndsWith(s, p) == Len(p) <= Len(s) /\ SubSeq(s, Len(s) - Len(p) + 1, Len(s)) = p

\* String.prototype.trim (blanks only)
RECURSIVE Trim(_)
Trim(s) ==
    IF s = <<>> THEN s
    ELSE IF Head(s) = " " THEN Trim(Tail(s))
    ELSE IF s[Len(s)] = " " THEN Trim(SubSeq(s, 1, Len(s) - 1))
    ELSE s

-----------------------------------------------------------------------------
(* Paths (POSIX): path.join, path.relative, normalizePath, getRelativePath *)

\* path.join(folderPath, name) for a folder path without trailing slash and a
\* plain entry name
PathJoin(folder, name) == folder \o <<"/">> \o name

\* path.relative(from, to) for `to` equal to `from` or below it; any other
\* `to` climbs with ".." segments
RECURSIVE JoinSegments(_)
JoinSegments(segs) ==
    IF segs = <<>> THEN <<>>
    ELSE IF Len(segs) = 1 THEN segs[1]
    ELSE segs[1] \o <<"/">> \o JoinSegments(Tail(segs))

PathRelative(from, to) ==
    IF to = from THEN <<>>
    ELSE IF StartsWith(to, from \o <<"/">>) THEN Substring(to, Len(from) + 1)
    ELSE JoinSegments([i \in 1..(Len(SplitSlash(from)) - 1) |-> <<".", ".">>])
         \o <<"/">> \o Substring(to, 1)

\* normalizePath: backslashes become slashes, one leading "./" is removed
normalizePath(filePath) ==
    LET slashed == [i \in 1..Len(filePath) |->
                       IF filePath[i] = "\\" THEN "/" ELSE filePath[i]]
    IN  IF StartsWith(slashed, <<".", "/">>) THEN Substring(slashed, 2) ELSE slashed

getRelativePath(filePath, workspaceRoot) ==
    normalizePath(PathRelative(workspaceRoot, filePath))

\* path.basename: the last segment of a path
Basename(path) == LET parts == SplitSlash(path) IN parts[Len(parts)]

\* a path that starts at the filesystem root
IsAbsolute(p) == Len(p) > 0 /\ p[1] = "/"

\* PathEntry of the specification: relative, forward slashes only
IsRelativeEntry(p) == ~IsAbsolute(p) /\ \A i \in 1..Len(p) : p[i] # "\\"

-----------------------------------------------------------------------------
(* Exclusion rules of the scan *)

\* the directories scanFolder skips before any rule is evaluated
KnownLargeDirectories == {
    <<"n", "o", "d", "e", "_", "m", "o", "d", "u", "l", "e", "s">>,
    <<".", "g", "i", "t">>,
    <<"d", "i", "s", "t">>,
    <<"b", "u", "i", "l", "d">>,
    <<"o", "u", "t">>,
    <<"c", "o", "v", "e", "r", "a", "g", "e">>,
    <<".", "n", "e", "x", "t">>,
    <<".", "n", "u", "x", "t">>,
    <<"v", "e", "n", "d", "o", "r">>}

\* DEFAULT_EXCLUDE_PATTERNS, all enabled, in declaration order
DEFAULT_EXCLUDE_PATTERNS == <<
    <<"*", "*", "/", "n", "o", "d", "e", "_", "m", "o", "d", "u", "l", "e", "s">>,
    <<"*", "*", "/", ".", "g", "i", "t">>,
    <<"*", "*", "/", "d", "i", "s", "t">>,
    <<"*", "*", "/", "b", "u", "i", "l", "d">>,
    <<"*", "*", "/", "o", "u", "t">>,
    <<"*", "*", "/", ".", "v", "s", "c", "o", "d", "e">>,
    <<"*", "*", "/", "c", "o", "v", "e", "r", "a", "g", "e">>,
    <<"*", "*", "/", "*", ".", "l", "o", "g">>,
    <<"*", "*", "/", ".", "D", "S", "_", "S", "t", "o", "r", "e">>,
    <<"*", "*", "/", "T", "h", "u", "m", "b", "s", ".", "d", "b">>,
    <<"*", "*", "/", ".", "i", "d", "e", "a">>,
    <<"*", "*", "/", ".", "v", "s">>,
    <<"*", "*", "/", "_", "_", "p", "y", "c", "a", "c", "h", "e", "_", "_">>,
    <<"*", "*", "/", "*", ".", "p", "y", "c">>,
    <<"*", "*", "/", "t", "m", "p">>,
    <<"*", "*", "/", "t", "e", "m", "p">>>>

\* DEFAULT_CONFIG, its exclude map resolved by getExcludePatterns
DEFAULT_CONFIG ==
    [exclude |-> DEFAULT_EXCLUDE_PATTERNS, maxResults |-> 50,
     showHiddenFiles |-> FALSE, useGitignore |-> TRUE]

\* shouldIncludeFile: no segment longer than one character starts with "."
shouldIncludeFile(filePath, showHiddenFiles) ==
    IF showHiddenFiles THEN TRUE
    ELSE LET parts == SplitSlash(filePath)
         IN  ~\E i \in 1..Len(parts) :
                 Len(parts[i]) > 1 /\ parts[i][1] = "."

\* new RegExp('^' + regexPattern + '$').test(s) for the translation of a glob:
\* "**" -> ".*", "*" -> "[^/]*", "?" -> "[^/]", any other character itself
RECURSIVE GlobRegexTest(_, _)
GlobRegexTest(pat, s) ==
    IF pat = <<>> THEN s = <<>>
    ELSE IF StartsWith(pat, <<"*", "*">>)
    THEN \E k \in 0..Len(s) : GlobRegexTest(Substring(pat, 2), Substring(s, k))
    ELSE IF pat[1] = "*"
    THEN \E k \in 0..Len(s) :
            /\ \A i \in 1..k : s[i] # "/"
            /\ GlobRegexTest(Tail(pat), Substring(s, k))
    ELSE IF pat[1] = "?"
    THEN s # <<>> /\ s[1] # "/" /\ GlobRegexTest(Tail(pat), Tail(s))
    ELSE s # <<>> /\ s[1] = pat[1] /\ GlobRegexTest(Tail(pat), Tail(s))

matchesGlobPattern(path, pattern) ==
    IF pattern = <<"*", "*", "/", "n", "o", "d", "e", "_", "m", "o", "d", "u", "l", "e", "s">> \/ pattern = <<"*", "*", "/", "n", "o", "d", "e", "_", "m", "o", "d", "u", "l", "e", "s", "/", "*", "*">>
    THEN Includes(path, <<"n", "o", "d", "e", "_", "m", "o", "d", "u", "l", "e", "s">>)
    ELSE IF pattern = <<"*", "*", "/", ".", "g", "i", "t">> \/ pattern = <<"*", "*", "/", ".", "g", "i", "t", "/", "*", "*">>
    THEN Includes(path, <<".", "g", "i", "t">>)
    ELSE IF ~Includes(pattern, <<"*">>) /\ ~Includes(pattern, <<"?">>)
    THEN path = pattern \/ StartsWith(path, pattern \o <<"/">>)
    ELSE GlobRegexTest(pattern, path)

\* new RegExp('^' + regexPattern + '(/.*)?$').test(s)
GitignoreRegexTest(pat, s) ==
    \E k \in 0..Len(s) :
        /\ GlobRegexTest(pat, SubSeq(s, 1, k))
        /\ k = Len(s) \/ s[k + 1] = "/"

matchesGitignorePatternInternal(path, pattern) ==
    IF ~Includes(pattern, <<"*">>) /\ ~Includes(pattern, <<"?">>)
    THEN path = pattern \/ StartsWith(path, pattern \o <<"/">>)
    ELSE GitignoreRegexTest(pattern, path)

\* the scope test that forgets the separator after baseDir
GitignoreInScope_NoSeparator(relativePath, baseDir) ==
    baseDir = <<".">> \/ StartsWith(relativePath, baseDir)

\* matchesGitignorePattern, lines 291-295: the path lies below the directory
\* of the .gitignore file
GitignoreInScope(relativePath, baseDir) ==
    baseDir = <<".">> \/ StartsWith(relativePath, baseDir \o <<"/">>)

matchesGitignorePattern(relativePath, gitignorePattern, isDirectory) ==
    LET pattern == gitignorePattern.pattern
        baseDir == gitignorePattern.baseDir
    IN  IF ~GitignoreInScope(relativePath, baseDir)
        THEN FALSE
        ELSE
        LET pathToCheck == IF baseDir # <<".">>
                           THEN Substring(relativePath, Len(baseDir) + 1)
                           ELSE relativePath
        IN
        IF EndsWith(pattern, <<"/">>)
        THEN IF ~isDirectory THEN FALSE
             ELSE LET dirPattern == SubSeq(pattern, 1, Len(pattern) - 1) IN
                  IF StartsWith(dirPattern, <<"*", "*", "/">>)
                  THEN LET parts == SplitSlash(pathToCheck)
                       IN  parts[Len(parts)] = Substring(dirPattern, 3)
                  ELSE matchesGitignorePatternInternal(pathToCheck, dirPattern)
        ELSE IF StartsWith(pattern, <<"/">>)
        THEN matchesGitignorePatternInternal(pathToCheck, Substring(pattern, 1))
        ELSE IF Includes(pattern, <<"*", "*", "/">>)
        THEN matchesGitignorePatternInternal(pathToCheck, pattern)
        ELSE IF pathToCheck = pattern \/ EndsWith(pathToCheck, <<"/">> \o pattern)
        THEN TRUE
        ELSE IF isDirectory /\ Includes(pathToCheck \o <<"/">>, pattern \o <<"/">>)
        THEN TRUE
        ELSE matchesGitignorePatternInternal(pathToCheck, pattern)

\* path.join(folderPath, '.gitignore')
GitignorePath(folderPath) ==
    folderPath \o <<"/", ".", "g", "i", "t", "i", "g", "n", "o", "r", "e">>

\* loadGitignorePatterns: the rules of the .gitignore of a folder; a folder
\* without the file, or with one that cannot be read, gives [] (readFile
\* throws, lines 252-254)
loadGitignorePatterns(folderPath, workspaceRoot) ==
    IF folderPath \notin DOMAIN gitignores \/ GitignorePath(folderPath) \in unreadable
    THEN <<>>
    ELSE LET relativeBasePath == PathRelative(workspaceRoot, folderPath)
             content == gitignores[folderPath]
             lines == [i \in 1..Len(content) |-> Trim(content[i])]
             kept == SelectSeq(lines, LAMBDA line :
                        /\ line # <<>>
                        /\ ~StartsWith(line, <<"#">>)
                        /\ ~StartsWith(line, <<"!">>))
         IN  [i \in 1..Len(kept) |->
                 [pattern |-> kept[i],
                  baseDir |-> IF relativeBasePath = <<>> THEN <<".">> ELSE relativeBasePath]]

\* scanFolder, lines 138-147: the rules in force in a folder
CurrentGitignorePatterns(folderPath, workspaceRoot, parentGitignorePatterns) ==
    IF config.useGitignore
    THEN parentGitignorePatterns \o loadGitignorePatterns(folderPath, workspaceRoot)
    ELSE parentGitignorePatterns

shouldExcludePath(relativePath, excludePatterns, gitignorePatterns, isDirectory) ==
    \/ \E i \in 1..Len(excludePatterns) :
           matchesGlobPattern(relativePath, excludePatterns[i])
    \/ \E i \in 1..Len(gitignorePatterns) :
           matchesGitignorePattern(relativePath, gitignorePatterns[i], isDirectory)

-----------------------------------------------------------------------------
(* LRUCache: a JavaScript Map keeps insertion order; keys().next() is the  *)
(* first inserted key still present.                                       *)

Range(s) == {s[i] : i \in 1..Len(s)}

MapKeys(m) == {m[i].key : i \in 1..Len(m)}

MapHas(m, k) == k \in MapKeys(m)

MapIndex(m, k) == CHOOSE i \in 1..Len(m) : m[i].key = k

\* Map.get(k): the stored value, or undefined
MapGet(m, k) == IF MapHas(m, k) THEN m[MapIndex(m, k)].value ELSE Undefined

\* Map.delete(k): the remaining entries keep their order
MapDelete(m, k) == SelectSeq(m, LAMBDA e : e.key # k)

\* Map.set(k, v): an existing key keeps its position, a new key goes last
MapSet(m, k, v) ==
    IF MapHas(m, k)
    THEN [i \in 1..Len(m) |-> IF m[i].key = k THEN [key |-> k, value |-> v] ELSE m[i]]
    ELSE Append(m, [key |-> k, value |-> v])

\* LRUCache.get that leaves the key where it is
LRUCacheGet_NoTouch(m, k) == m

\* LRUCache.get: the cache after the call (a hit moves the key to the end)
\* (a stored value is a string or a FileCacheEntry, never undefined)
LRUCacheGet(m, k) ==
    IF ~MapHas(m, k) THEN m
    ELSE MapSet(MapDelete(m, k), k, MapGet(m, k))

\* LRUCache.set that never removes the oldest key
LRUCacheSet_NoEvict(m, k, v, max) ==
    MapSet(IF MapHas(m, k) THEN MapDelete(m, k) ELSE m, k, v)

\* LRUCache.set: the cache after the call
LRUCacheSet(m, k, v, max) ==
    LET removed == IF MapHas(m, k) THEN MapDelete(m, k) ELSE m
        added == MapSet(removed, k, v)
    IN  IF Len(added) > max
        THEN MapDelete(added, added[1].key)
        ELSE added

-----------------------------------------------------------------------------
(* The workspace: two folders; the second holds a single file.  Directories  *)
(* are fixed, files come and go.                                             *)

Root1 == <<"/", "1">>
Root2 == <<"/", "2">>

\* vscode.workspace.workspaceFolders, in order
workspaceFolders == <<Root1, Root2>>
Roots == {Root1, Root2}

\* relative paths of the files that may exist below a root
DiskFiles(r) ==
    IF r = Root1
    THEN {<<"a">>, <<"s", "/", "b">>, <<"o", "u", "t", "/", "x">>}
    ELSE {<<"a", ".", "t", "s">>}

\* the files that exist when the scanner is constructed
InitialFiles(r) ==
    IF r = Root1 THEN {<<"a">>, <<"s", "/", "b">>} ELSE {<<"a", ".", "t", "s">>}

\* a folder outside the workspace, for direct calls of scanFolder
Root3 == <<"/", "3">>

\* relative paths of the directories below a root
DiskDirs(r) ==
    IF r = Root1 THEN {<<"s">>, <<"o", "u", "t">>}
    ELSE IF r = Root3 THEN {<<"s">>, <<"O", "u", "t">>, <<".", "g", "i", "t">>}
    ELSE {}

\* directories that exist when a file lies below them
OptionalDirs == {<<"t", "m", "p">>, <<"s", "/", "t", "m", "p">>}

\* entry names, in the order a listing returns them
EntryNames == <<<<".", "g", "i", "t">>, <<"O", "u", "t">>, <<"a">>,
                <<"a", ".", "t", "s">>, <<"b">>,
                <<"i", ".", "g", "i", "t", "b", "o", "o", "k", ".", "m", "d">>,
                <<"n", "o", "d", "e", "_", "m", "o", "d", "u", "l", "e", "s", "_", "h", "e", "l", "p", "e", "r", ".", "t", "s">>,
                <<"o", "u", "t">>, <<"s">>, <<"t", "m", "p">>, <<"x">>, <<"x", ".", "l", "o", "g">>>>

\* fs.promises.readdir(folderPath, {withFileTypes: true}) on the current disk
Readdir(r, folderPath, files) ==
    LET rel(name) == PathRelative(r, PathJoin(folderPath, name))
        dirent(name) == [name |-> name,
                         isDirectory |->
                            \/ rel(name) \in DiskDirs(r)
                            \/ /\ rel(name) \in OptionalDirs
                               /\ \E f \in files : StartsWith(f, rel(name) \o <<"/">>),
                         isFile |-> rel(name) \in files]
        all == [i \in 1..Len(EntryNames) |-> dirent(EntryNames[i])]
    IN  SelectSeq(all, LAMBDA e : e.isDirectory \/ e.isFile)

\* await fs.promises.readdir(folderPath, ...): rejects for a folder that
\* cannot be listed
ReaddirResult(r, folderPath, files) ==
    IF folderPath \in unreadable
    THEN [threw |-> TRUE, entries |-> <<>>]
    ELSE [threw |-> FALSE, entries |-> Readdir(r, folderPath, files)]

\* a scanFolder without its try ... catch
ScanFolderCatch_Rethrow(listing) == listing

\* scanFolder, lines 149-216: a readdir that throws leaves the try block
\* before its loop; the catch logs, and scanFolder returns its files
ScanFolderCatch(listing) == [listing EXCEPT !.threw = FALSE]

\* the scanWorkspace calls that can be in flight
Calls == {"c1"}

\* workspaceConfig.showHiddenFiles
showHiddenFiles == config.showHiddenFiles

-----------------------------------------------------------------------------
(* FileCache *)

\* Set.prototype.add on an insertion-ordered Set held as a sequence
SetAdd_Append(set, x) == Append(set, x)

SetAdd(set, x) == IF x \in Range(set) THEN set ELSE Append(set, x)

\* Set.prototype.delete
SetDelete(set, x) == SelectSeq(set, LAMBDA y : y # x)

\* new Set(array): first occurrences, in order
RECURSIVE NewSet(_)
NewSet(array) ==
    IF array = <<>> THEN <<>>
    ELSE SetAdd(NewSet(SubSeq(array, 1, Len(array) - 1)), array[Len(array)])

\* handleFileChange, lines 155-169: the pending updates after the notification
HandleFileChange(pending, workspacePath, filePath, changeType) ==
    LET updates == IF workspacePath \in DOMAIN pending THEN pending[workspacePath] ELSE <<>>
        added == IF changeType = "create"
                 THEN SetAdd(updates, filePath)
                 ELSE SetAdd(updates, <<"-">> \o filePath)
    IN  [w \in DOMAIN pending \cup {workspacePath} |->
            IF w = workspacePath THEN added ELSE pending[w]]

\* debounceUpdate that keeps a timer that is already armed
DebounceUpdate_KeepTimer(timers, workspacePath) ==
    [w \in DOMAIN timers \cup {workspacePath} |->
        IF w \in DOMAIN timers THEN timers[w] ELSE debounceDelay]

\* debounceUpdate: the armed timers after the call (clearTimeout, setTimeout)
DebounceUpdate(timers, workspacePath) ==
    [w \in DOMAIN timers \cup {workspacePath} |->
        IF w = workspacePath THEN debounceDelay ELSE timers[w]]

\* applyIncrementalUpdates, lines 206-220: the new file list
RECURSIVE ApplyUpdates(_, _)
ApplyUpdates(fileSet, updates) ==
    IF updates = <<>> THEN fileSet
    ELSE LET update == Head(updates) IN
         IF StartsWith(update, <<"-">>)
         THEN ApplyUpdates(SetDelete(fileSet, Substring(update, 1)), Tail(updates))
         ELSE ApplyUpdates(SetAdd(fileSet, update), Tail(updates))

MapRemove(f, k) == [x \in DOMAIN f \ {k} |-> f[x]]

\* applyIncrementalUpdates: <<cache, pendingUpdates>> after the call
ApplyIncrementalUpdates(c, pending, workspacePath) ==
    LET got == LRUCacheGet(c, workspacePath) IN
    IF \/ ~MapHas(c, workspacePath)
       \/ workspacePath \notin DOMAIN pending
       \/ Len(pending[workspacePath]) = 0
    THEN <<got, pending>>
    ELSE <<MapSet(got, workspacePath,
                  ApplyUpdates(NewSet(MapGet(c, workspacePath)), pending[workspacePath])),
           MapRemove(pending, workspacePath)>>

\* setCachedFiles that adds the files to the list the root has
SetCachedFiles_AddToList(c, watchers, workspacePath, files) ==
    <<LRUCacheSet(c, workspacePath,
                  (IF MapHas(c, workspacePath) THEN MapGet(c, workspacePath) ELSE <<>>)
                      \o files, maxSize),
      watchers \cup {workspacePath}>>

\* setCachedFiles: <<cache, fileWatchers>> after the call
SetCachedFiles(c, watchers, workspacePath, files) ==
    <<LRUCacheSet(c, workspacePath, files, maxSize), watchers \cup {workspacePath}>>

-----------------------------------------------------------------------------
(* FileScanner.scanFolder: one frame per active call of the recursion.  A    *)
(* frame is suspended at its readdir until ScanReaddir delivers the listing; *)
(* the read of .gitignore before it fails (no such file) and yields [].      *)

\* the early exclusion that compares the name as it is spelled
IsKnownLargeDirectory_CaseSensitive(entry) ==
    entry.isDirectory /\ entry.name \in KnownLargeDirectories

\* scanFolder, lines 155-163: the early exclusion of known large directories
IsKnownLargeDirectory(entry) ==
    entry.isDirectory /\ ToLowerCase(entry.name) \in KnownLargeDirectories

Frame(folderPath, max, gitignorePatterns) ==
    [folderPath |-> folderPath, files |-> <<>>, entries |-> <<>>, maxFiles |-> max,
     gitignore |-> gitignorePatterns]

ReplaceTop(stack, frame) == [stack EXCEPT ![Len(stack)] = frame]

\* scanFolder from the entry at the head of the top frame's listing up to the
\* next readdir (suspended) or the return of the outermost call (done)
RECURSIVE ScanFolderRun(_, _)
ScanFolderRun(workspaceRoot, stack) ==
    LET top == stack[Len(stack)]
        return(files) ==
            IF Len(stack) = 1
            THEN [done |-> TRUE, files |-> files, stack |-> <<>>]
            ELSE LET parent == stack[Len(stack) - 1]
                     resumed == [parent EXCEPT !.files = parent.files \o files]
                 IN  ScanFolderRun(workspaceRoot,
                                   ReplaceTop(SubSeq(stack, 1, Len(stack) - 1), resumed))
    IN
    IF top.entries = <<>> THEN return(top.files)
    ELSE
    LET entry == Head(top.entries)
        next == [top EXCEPT !.entries = Tail(top.entries)]
        continue == ScanFolderRun(workspaceRoot, ReplaceTop(stack, next))
        fullPath == PathJoin(top.folderPath, entry.name)
        relativePath == getRelativePath(fullPath, workspaceRoot)
    IN
    IF IsKnownLargeDirectory(entry) THEN continue
    ELSE IF ~shouldIncludeFile(relativePath, showHiddenFiles) THEN continue
    ELSE IF shouldExcludePath(relativePath, config.exclude, top.gitignore,
                              entry.isDirectory) THEN continue
    ELSE IF entry.isDirectory
    THEN IF Len(top.files) >= top.maxFiles THEN continue
         ELSE [done |-> FALSE, files |-> <<>>,
               stack |-> Append(ReplaceTop(stack, next),
                                Frame(fullPath, top.maxFiles - Len(top.files),
                                      CurrentGitignorePatterns(fullPath, workspaceRoot,
                                                               top.gitignore)))]
    ELSE IF entry.isFile
    THEN LET pushed == Append(top.files, relativePath) IN
         IF Len(pushed) >= top.maxFiles THEN return(pushed)
         ELSE ScanFolderRun(workspaceRoot,
                            ReplaceTop(stack, [next EXCEPT !.files = pushed]))
    ELSE continue

IdleScan == [pc |-> "idle", idx |-> 0, stack |-> <<>>, out |-> <<>>]

\* scanWorkspace, lines 92-119, from the cache check of folder idx up to the
\* next readdir or the return: the state of the cache, the call and the history
RECURSIVE ScanWorkspaceLoop(_, _)
ScanWorkspaceLoop(idx, st) ==
    IF idx > Len(workspaceFolders)
    THEN [st EXCEPT !.scan = [IdleScan EXCEPT !.out = st.scan.out]]
    ELSE
    LET workspacePath == workspaceFolders[idx]
        asked == [st EXCEPT !.cache = LRUCacheGet(st.cache, workspacePath),
                            !.mustRescan[workspacePath] = FALSE]
    IN  IF MapHas(st.cache, workspacePath)
        THEN ScanWorkspaceLoop(idx + 1,
                [asked EXCEPT !.scan.out = st.scan.out \o MapGet(st.cache, workspacePath)])
        ELSE [asked EXCEPT !.scan = [pc |-> "readdir", idx |-> idx,
                                     stack |-> <<Frame(workspacePath, maxFiles,
                                        CurrentGitignorePatterns(workspacePath,
                                                                 workspacePath, <<>>))>>,
                                     out |-> st.scan.out]]

\* scanWorkspace, lines 115-118: store the finished scan of folder idx
ScanWorkspaceStore(idx, st, workspaceFiles) ==
    LET workspacePath == workspaceFolders[idx]
        set == SetCachedFiles(st.cache, st.fileWatchers, workspacePath, workspaceFiles)
    IN  [st EXCEPT !.cache = set[1], !.fileWatchers = set[2],
                   !.scan.out = st.scan.out \o workspaceFiles]

ScanState(c) ==
    [cache |-> cache, fileWatchers |-> fileWatchers, mustRescan |-> mustRescan,
     scan |-> scans[c]]

-----------------------------------------------------------------------------
(* FuzzySearcher (src/fuzzySearch.ts).  A score is an exact fraction         *)
(* <<numerator, denominator>> in lowest terms; <<0, 0>> is NaN.  The         *)
(* rounding of IEEE doubles is not modelled.                                 *)

RECURSIVE GCD(_, _)
GCD(a, b) == IF b = 0 THEN a ELSE GCD(b, a % b)

NaN == <<0, 0>>
IsNaN(x) == x[2] = 0

Rat(n, d) == LET g == GCD(n, d) IN <<n \div g, d \div g>>
Zero == Rat(0, 1)

RatAdd(x, y) == IF IsNaN(x) \/ IsNaN(y) THEN NaN
                ELSE Rat(x[1] * y[2] + y[1] * x[2], x[2] * y[2])
RatMul(x, y) == IF IsNaN(x) \/ IsNaN(y) THEN NaN
                ELSE Rat(x[1] * y[1], x[2] * y[2])
\* x > y; false when either side is NaN
RatGt(x, y) == ~IsNaN(x) /\ ~IsNaN(y) /\ x[1] * y[2] > y[1] * x[2]

Digits == {"0", "1", "2", "3", "4", "5", "6", "7", "8", "9"}

\* isAlphanumeric: /[a-zA-Z0-9]/
isAlphanumeric(char) ==
    char \in Range(LowerCase) \cup Range(UpperCase) \cup Digits

\* a normalization that lower-cases and keeps the symbols
normalizeForSearch_KeepSymbols(str) == ToLowerCase(str)

\* normalizeForSearch: the alphanumeric characters, lower-cased
normalizeForSearch(str) == ToLowerCase(SelectSeq(str, isAlphanumeric))

\* String.prototype.split(/[\\/\-_.]/)
RECURSIVE SplitPartsAcc(_, _, _)
SplitPartsAcc(s, cur, acc) ==
    IF s = <<>> THEN Append(acc, cur)
    ELSE IF Head(s) \in {"\\", "/", "-", "_", "."}
    THEN SplitPartsAcc(Tail(s), <<>>, Append(acc, cur))
    ELSE SplitPartsAcc(Tail(s), Append(cur, Head(s)), acc)

SplitQueryParts(query) == SplitPartsAcc(query, <<>>, <<>>)

\* path.extname: from the last "." of the basename, "" when there is none or
\* when it is the first character
ExtName(filePath) ==
    LET base == Basename(filePath)
        dots == {i \in 1..Len(base) : base[i] = "."}
    IN  IF dots = {} THEN <<>>
        ELSE LET last == CHOOSE i \in dots : \A j \in dots : j <= i
             IN  IF last = 1 THEN <<>> ELSE SubSeq(base, last, Len(base))

sourceCodeExtensions == {
    <<".", "t", "s">>, <<".", "t", "s", "x">>, <<".", "j", "s">>, <<".", "j", "s", "x">>,
    <<".", "p", "y">>, <<".", "j", "a", "v", "a">>, <<".", "c", "p", "p">>, <<".", "c">>,
    <<".", "c", "s">>, <<".", "g", "o">>, <<".", "r", "s">>}
docExtensions == {
    <<".", "m", "d">>, <<".", "m", "d", "x">>, <<".", "r", "s", "t">>, <<".", "t", "x", "t">>}
configExtensions == {
    <<".", "j", "s", "o", "n">>, <<".", "y", "a", "m", "l">>, <<".", "y", "m", "l">>,
    <<".", "t", "o", "m", "l">>, <<".", "x", "m", "l">>}

\* getFileTypeWeight: 1.2, 1.1, 1.05 or 1.0
getFileTypeWeight(filePath) ==
    LET ext == ToLowerCase(ExtName(filePath)) IN
    IF ext \in sourceCodeExtensions THEN Rat(6, 5)
    ELSE IF ext \in docExtensions THEN Rat(11, 10)
    ELSE IF ext \in configExtensions THEN Rat(21, 20)
    ELSE Rat(1, 1)

\* no match (null)
NoMatch == [found |-> FALSE]

\* the loop of fuzzyMatchString; indices count from 0 and score2 is twice the
\* score
RECURSIVE FuzzyMatchLoop(_, _, _, _, _, _, _, _, _)
FuzzyMatchLoop(query, target, searchTarget, queryIndex, targetIndex, matches, score2, consecutiveMatches, lastMatchIndex) ==
    IF ~(queryIndex < Len(query) /\ targetIndex < Len(searchTarget))
    THEN [queryIndex |-> queryIndex, matches |-> matches, score2 |-> score2]
    ELSE IF query[queryIndex + 1] = searchTarget[targetIndex + 1]
    THEN LET run == lastMatchIndex = targetIndex - 1
             consecutive == IF run THEN consecutiveMatches + 1 ELSE 0
             boundary == \/ targetIndex = 0
                         \/ ~isAlphanumeric(searchTarget[targetIndex])
             capital == target[targetIndex + 1] # searchTarget[targetIndex + 1]
             gained == 2 + (IF run THEN consecutive ELSE 0)
                         + (IF boundary THEN 2 ELSE 0)
                         + (IF capital THEN 1 ELSE 0)
         IN  FuzzyMatchLoop(query, target, searchTarget, queryIndex + 1, targetIndex + 1,
                            Append(matches, targetIndex), score2 + gained,
                            consecutive, targetIndex)
    ELSE FuzzyMatchLoop(query, target, searchTarget, queryIndex, targetIndex + 1,
                        matches, score2, consecutiveMatches, lastMatchIndex)

\* fuzzyMatchString after its loop has ended in state `end`
FuzzyMatchResult(query, target, searchTarget, end) ==
    IF end.queryIndex # Len(query) THEN NoMatch
    ELSE IF end.matches = <<>>
    THEN [found |-> TRUE, score |-> NaN, matches |-> <<>>]
    ELSE LET spread == end.matches[Len(end.matches)] - end.matches[1]
             lengthPenalty == Rat(Len(target) - spread, Len(target))
             score == RatMul(Rat(end.score2, 2), lengthPenalty)
         IN  [found |-> TRUE,
              score |-> IF query = searchTarget THEN RatMul(score, Rat(2, 1)) ELSE score,
              matches |-> end.matches]

\* fuzzyMatchString, given the target it searches in
FuzzyMatchIn(query, target, searchTarget) ==
    FuzzyMatchResult(query, target, searchTarget,
                     FuzzyMatchLoop(query, target, searchTarget, 0, 0, <<>>, 0, 0, -1))

fuzzyMatchString(caseInsensitive, query, target) ==
    FuzzyMatchIn(query, target, IF caseInsensitive THEN ToLowerCase(target) ELSE target)

\* fuzzyMatchPathSegments: the totals after the match of one query part
AddPartMatch(acc, match, currentIndex) ==
    IF match.found
    THEN [segmentScore |-> RatAdd(acc.segmentScore, match.score),
          allMatches |-> acc.allMatches \o
             [i \in 1..Len(match.matches) |-> match.matches[i] + currentIndex]]
    ELSE acc

\* the inner loop of fuzzyMatchPathSegments: the query parts on one segment
RECURSIVE SegmentParts(_, _, _, _, _)
SegmentParts(caseInsensitive, queryParts, segment, currentIndex, acc) ==
    IF queryParts = <<>> THEN acc
    ELSE SegmentParts(caseInsensitive, Tail(queryParts), segment, currentIndex,
                      AddPartMatch(acc, fuzzyMatchString(caseInsensitive, Head(queryParts),
                                                         segment),
                                   currentIndex))

\* fuzzyMatchPathSegments: the bonus of the last segment (the filename)
SegmentScore(isLast, segmentScore) ==
    IF isLast /\ RatGt(segmentScore, Zero) THEN RatMul(segmentScore, Rat(3, 2))
    ELSE segmentScore

\* the outer loop of fuzzyMatchPathSegments; `done` is the result of the inner
\* loop on segment i
RECURSIVE SegmentsLoop(_, _, _, _, _, _, _, _)
RECURSIVE SegmentsNext(_, _, _, _, _, _, _, _)
SegmentsNext(caseInsensitive, queryParts, segments, searchSegments, i, totalScore, currentIndex, done) ==
    SegmentsLoop(caseInsensitive, queryParts, segments, searchSegments, i + 1,
                 RatAdd(totalScore, SegmentScore(i = Len(segments), done.segmentScore)),
                 done.allMatches, currentIndex + Len(segments[i]) + 1)

SegmentsLoop(caseInsensitive, queryParts, segments, searchSegments, i, totalScore, allMatches, currentIndex) ==
    IF i > Len(segments) THEN [totalScore |-> totalScore, allMatches |-> allMatches]
    ELSE SegmentsNext(caseInsensitive, queryParts, segments, searchSegments, i, totalScore,
                      currentIndex,
                      SegmentParts(caseInsensitive, queryParts, searchSegments[i],
                                   currentIndex,
                                   [segmentScore |-> Zero, allMatches |-> allMatches]))

\* fuzzyMatchPathSegments after its loops have ended in state `end`
PathSegmentsResult(end) ==
    IF RatGt(end.totalScore, Zero)
    THEN [found |-> TRUE, score |-> end.totalScore, matches |-> end.allMatches]
    ELSE NoMatch

\* fuzzyMatchPathSegments, given the segments of the path
PathSegmentsIn(caseInsensitive, query, segments) ==
    PathSegmentsResult(
        SegmentsLoop(caseInsensitive, SplitQueryParts(query), segments,
                     IF caseInsensitive
                     THEN [i \in 1..Len(segments) |-> ToLowerCase(segments[i])]
                     ELSE segments,
                     1, Zero, <<>>, 0))

\* fuzzyMatchPathSegments, with pathSeparator = path.sep = "/"
fuzzyMatchPathSegments(caseInsensitive, query, filePath) ==
    PathSegmentsIn(caseInsensitive, query, SplitSlash(filePath))

Better(best, candidate, score) ==
    IF candidate.found /\ RatGt(score, best.score)
    THEN [score |-> score, matches |-> candidate.matches]
    ELSE best

ScoreOf(match) == IF match.found THEN match.score ELSE Zero

\* the match a best score and its positions make
BestMatch(filePath, best) ==
    IF RatGt(best.score, Zero)
    THEN [found |-> TRUE, path |-> filePath, score |-> best.score, matches |-> best.matches]
    ELSE NoMatch

\* fuzzyMatch: the best of the three strategies, the filename counting double
BestOfStrategies(filePath, fileNameMatch, pathMatch, pathSegmentMatch) ==
    BestMatch(filePath,
        Better(Better(Better([score |-> Zero, matches |-> <<>>],
                             fileNameMatch, RatMul(ScoreOf(fileNameMatch), Rat(2, 1))),
                      pathMatch, ScoreOf(pathMatch)),
               pathSegmentMatch, ScoreOf(pathSegmentMatch)))

\* fuzzyMatch, given the path it searches in
FuzzyMatchPath(caseInsensitive, query, filePath, searchPath) ==
    BestOfStrategies(filePath,
                     fuzzyMatchString(caseInsensitive, query, Basename(searchPath)),
                     fuzzyMatchString(caseInsensitive, query, searchPath),
                     fuzzyMatchPathSegments(caseInsensitive, query, filePath))

fuzzyMatch(caseInsensitive, query, filePath) ==
    FuzzyMatchPath(caseInsensitive, query, filePath,
                   IF caseInsensitive THEN ToLowerCase(filePath) ELSE filePath)

\* fuzzyMatchNormalized: the best of filename (x 3) and path (x 0.8)
BestOfNormalized(filePath, fileNameMatch, pathMatch) ==
    BestMatch(filePath,
        Better(Better([score |-> Zero, matches |-> <<>>],
                      fileNameMatch, RatMul(ScoreOf(fileNameMatch), Rat(3, 1))),
               pathMatch, RatMul(ScoreOf(pathMatch), Rat(4, 5))))

fuzzyMatchNormalized(caseInsensitive, normalizedQuery, filePath) ==
    IF normalizedQuery = <<>> THEN NoMatch
    ELSE BestOfNormalized(filePath,
            fuzzyMatchString(caseInsensitive, normalizedQuery,
                             normalizeForSearch(Basename(filePath))),
            fuzzyMatchString(caseInsensitive, normalizedQuery,
                             normalizeForSearch(filePath)))

FuzzyMatch(path, score, matches) == [path |-> path, score |-> score, matches |-> matches]

\* Array.prototype.sort((a, b) => b.score - a.score): x put into the sorted
\* matches that precede it, behind those it does not beat
SortInsert(sorted, x) ==
    SelectSeq(sorted, LAMBDA m : ~RatGt(x.score, m.score))
        \o <<x>> \o SelectSeq(sorted, LAMBDA m : RatGt(x.score, m.score))

\* Array.prototype.sort((a, b) => b.score - a.score): stable, descending
RECURSIVE SortByScore(_)
SortByScore(matches) ==
    IF matches = <<>> THEN <<>>
    ELSE SortInsert(SortByScore(SubSeq(matches, 1, Len(matches) - 1)),
                    matches[Len(matches)])

\* Array.prototype.slice(0, n)
Slice(seq, n) == SubSeq(seq, 1, IF Len(seq) < n THEN Len(seq) ELSE n)

\* FuzzySearcher.search, lines 46-50: the normalized match replaces the
\* direct one when there is none or when it scores higher
ChooseMatch(match, normalizedMatch) ==
    IF ~match.found \/ (normalizedMatch.found /\ RatGt(normalizedMatch.score, match.score))
    THEN normalizedMatch
    ELSE match

\* FuzzySearcher.search, lines 52-56: results.push(bestMatch)
PushMatch(results, bestMatch) ==
    IF bestMatch.found
    THEN Append(results, FuzzyMatch(bestMatch.path, bestMatch.score, bestMatch.matches))
    ELSE results

\* FuzzySearcher.search on one file path, given the query it searches for
SearchOne(caseInsensitive, searchQuery, filePath) ==
    ChooseMatch(fuzzyMatch(caseInsensitive, searchQuery, filePath),
                fuzzyMatchNormalized(caseInsensitive, normalizeForSearch(searchQuery),
                                     filePath))

\* the loop of FuzzySearcher.search over the file paths
RECURSIVE SearchLoop(_, _, _)
SearchLoop(caseInsensitive, query, filePaths) ==
    IF filePaths = <<>> THEN <<>>
    ELSE PushMatch(SearchLoop(caseInsensitive, query,
                              SubSeq(filePaths, 1, Len(filePaths) - 1)),
                   SearchOne(caseInsensitive,
                             IF caseInsensitive THEN ToLowerCase(query) ELSE query,
                             filePaths[Len(filePaths)]))

\* a search that treats the empty query like any other
FuzzySearch_NoEmptyCase(caseInsensitive, query, filePaths, maxResults) ==
    Slice(SortByScore(SearchLoop(caseInsensitive, query, filePaths)), maxResults)

\* FuzzySearcher.search
FuzzySearch(caseInsensitive, query, filePaths, maxResults) ==
    IF query = <<>>
    THEN LET first == Slice(filePaths, maxResults)
         IN  [i \in 1..Len(first) |-> FuzzyMatch(first[i], Zero, <<>>)]
    ELSE Slice(SortByScore(SearchLoop(caseInsensitive, query, filePaths)), maxResults)

-----------------------------------------------------------------------------
(* HierarchicalSearchCache (src/searchCache.ts is not part of the sources;   *)
(* modelled from section 4.5 of the specification): an LRU map from query to *)
(* its matches; a query is answered from the entry of the query itself or of *)
(* its longest cached prefix.                                                *)

MaxQueries == 2      \* capacity of the query cache (the FileScanner passes 100)

\* the cached query that answers a query
CachedKeyFor(sc, query) ==
    CHOOSE k \in MapKeys(sc) :
        /\ StartsWith(query, k)
        /\ \A j \in MapKeys(sc) : StartsWith(query, j) => Len(j) <= Len(k)

HasCachedResults(sc, query) == \E k \in MapKeys(sc) : StartsWith(query, k)

\* getCachedResults: <<the matches, the cache after the call>>
getCachedResults(sc, query) ==
    LET key == CachedKeyFor(sc, query)
    IN  <<MapGet(sc, key), LRUCacheGet(sc, key)>>

\* filterCachedResults (narrow): the cached matches the refined query can
\* still match
filterCachedResults(cachedResults, query) ==
    SelectSeq(cachedResults, LAMBDA m : FuzzySearch(TRUE, query, <<m.path>>, 1) # <<>>)

\* setCachedResults: the cache after the call
setCachedResults(sc, query, matches) == LRUCacheSet(sc, query, matches, MaxQueries)

-----------------------------------------------------------------------------
(* AsyncBatchProcessor (src/asyncBatchProcessor.ts is not part of the        *)
(* sources; modelled from section 5 of the specification): the matches are   *)
(* handed out in batches, best first; the token is looked at before each     *)
(* batch and a cancelled token ends the sequence without an error.           *)

batchSize == 1       \* matches per batch (the FileScanner passes 20)
maxBatches == 50

\* processFuzzyMatchBatches resumed after `batches` batches: a further batch
\* is yielded
YieldsBatch(matches, batches, isCancellationRequested) ==
    /\ ~isCancellationRequested
    /\ batches < maxBatches
    /\ batches * batchSize < Len(matches)

-----------------------------------------------------------------------------
(* FileScanner.getMatchingFiles and getMatchingFilesAsync                    *)

Paths(matches) == [i \in 1..Len(matches) |-> matches[i].path]

\* getMatchingFiles, lines 412-413: the answer from cached results
NarrowCached(cachedResults, query) ==
    FuzzySearch(TRUE, query, Paths(filterCachedResults(cachedResults, query)),
                config.maxResults)

\* getMatchingFiles, lines 466-468
ApplyFileTypeWeights(matches) ==
    [i \in 1..Len(matches) |->
        [matches[i] EXCEPT !.score = RatMul(@, getFileTypeWeight(matches[i].path))]]

\* the cached matches left in the order the search returned them in
MissMatches_NoSort(query, allFiles) ==
    ApplyFileTypeWeights(FuzzySearch(TRUE, query, allFiles, config.maxResults * 2))

\* getMatchingFiles, lines 452-471: the matches that are cached
MissMatches(query, allFiles) ==
    SortByScore(ApplyFileTypeWeights(
        FuzzySearch(TRUE, query, allFiles, config.maxResults * 2)))

IdleSearch ==
    [pc |-> "idle", query |-> <<>>, streaming |-> FALSE, cancelled |-> FALSE,
     hit |-> FALSE, result |-> <<>>, stream |-> "none", batches |-> 0,
     reads |-> 0, late |-> 0]

\* the call returns result; a streaming call goes on to hand out batches
Returned(call, result, hit) ==
    [call EXCEPT !.pc = "returned", !.result = result, !.hit = hit,
                 !.stream = IF call.streaming THEN "open" ELSE "none"]

\* getMatchingFiles, lines 429-477, once scanWorkspace has returned allFiles
FinishSearch(c, call, allFiles) ==
    IF allFiles = <<>>
    THEN /\ searches' = [searches EXCEPT ![c] = Returned(call, <<>>, FALSE)]
         /\ UNCHANGED <<searchCache, staleQueries>>
    ELSE LET matches == MissMatches(call.query, allFiles) IN
         /\ searchCache' = setCachedResults(searchCache, call.query, matches)
         /\ staleQueries' = (staleQueries \ {call.query}) \cap MapKeys(searchCache')
         /\ searches' = [searches EXCEPT ![c] =
               Returned(call, Slice(matches, config.maxResults), FALSE)]

\* a readdir of the scan of call c has completed and left the scan in state
\* `scan`: a waiting getMatchingFiles goes on when scanWorkspace has returned
SearchAfterRead(c, scan) ==
    IF searches[c].pc # "scanning" THEN UNCHANGED <<searchCache, searches, staleQueries>>
    ELSE LET call == [searches[c] EXCEPT
                         !.reads = IF searches[c].cancelled THEN @ + 1 ELSE @]
         IN  IF scan.pc = "idle"
             THEN FinishSearch(c, call, scan.out)
             ELSE /\ searches' = [searches EXCEPT ![c] = call]
                  /\ UNCHANGED <<searchCache, staleQueries>>

-----------------------------------------------------------------------------
(* Actions *)

InitIdle ==
    /\ cache = <<>>
    /\ maxSize = 1
    /\ fileWatchers = {}
    /\ pendingUpdates = <<>>
    /\ updateDebounceTimers = <<>>
    /\ disk = [r \in Roots |-> {}]
    /\ scans = [c \in Calls |-> IdleScan]
    /\ sinceEvent = [r \in Roots |-> debounceDelay]
    /\ mustRescan = [r \in Roots |-> FALSE]
    /\ events = 0
    /\ config = DEFAULT_CONFIG
    /\ gitignores = <<>>
    /\ unreadable = {}
    /\ probe = NoProbe
    /\ validityDuration = Undefined
    /\ listeners = <<>>
    /\ disposables = {"configWatcher"}
    /\ lastChange = NoChange
    /\ sinceSet = [r \in Roots |-> 0]
    /\ searchCache = <<>>
    /\ searches = [c \in Calls |-> IdleSearch]
    /\ listening = TRUE
    /\ staleQueries = {}

InitLRUIdle ==
    /\ lru = <<>>
    /\ lruMax = 1
    /\ lruStamp = [k \in LruKeys |-> 0]
    /\ lruClock = 0
    /\ lruRet = Undefined

\* new FileScanner() on a workspace that holds any of its files
Init ==
    /\ InitLRUIdle
    /\ cache = <<>>
    /\ maxSize \in 1..MaxCap
    /\ fileWatchers = {}
    /\ pendingUpdates = <<>>
    /\ updateDebounceTimers = <<>>
    /\ disk = [r \in Roots |-> InitialFiles(r)]
    /\ scans = [c \in Calls |-> IdleScan]
    /\ sinceEvent = [r \in Roots |-> debounceDelay]
    /\ mustRescan = [r \in Roots |-> FALSE]
    /\ events = 0
    /\ config = DEFAULT_CONFIG
    /\ gitignores = <<>>
    /\ unreadable = {}
    /\ probe = NoProbe
    /\ validityDuration = Undefined
    /\ listeners = <<>>
    /\ disposables = {"configWatcher"}
    /\ lastChange = NoChange
    /\ sinceSet = [r \in Roots |-> 0]
    /\ searchCache = <<>>
    /\ searches = [c \in Calls |-> IdleSearch]
    /\ listening = TRUE
    /\ staleQueries = {}

Install(st, c) ==
    /\ cache' = st.cache
    /\ fileWatchers' = st.fileWatchers
    /\ mustRescan' = st.mustRescan
    /\ scans' = [scans EXCEPT ![c] = st.scan]

\* a call of scanWorkspace, up to its first readdir
ScanWorkspace(c) ==
    /\ scans[c].pc = "idle"
    /\ Install(ScanWorkspaceLoop(1, [ScanState(c) EXCEPT !.scan.out = <<>>]), c)
    /\ UNCHANGED <<lruVars, maxSize, pendingUpdates, updateDebounceTimers, disk,
                   sinceEvent, events>>
    /\ UNCHANGED <<cfgVars, searchVars, testVars>>

\* an exception leaves scanFolder: the awaits of scanWorkspace (line 105) and
\* of getMatchingFiles (line 426) pass it on to their callers
ScanRejected(c) ==
    /\ scans' = [scans EXCEPT ![c] = [IdleScan EXCEPT !.pc = "rejected"]]
    /\ searches' = [searches EXCEPT ![c].pc =
          IF searches[c].pc = "scanning" THEN "rejected" ELSE @]
    /\ UNCHANGED <<cache, fileWatchers, mustRescan, searchCache, staleQueries>>

\* a readdir of call c completes: scanFolder goes on to its next readdir, or
\* returns to scanWorkspace, which stores the list and goes on with the folders
ScanReaddir(c) ==
    /\ scans[c].pc = "readdir"
    /\ LET scan == scans[c]
           workspaceRoot == workspaceFolders[scan.idx]
           top == scan.stack[Len(scan.stack)]
           listing == ScanFolderCatch(ReaddirResult(workspaceRoot, top.folderPath,
                                                    disk[workspaceRoot]))
           listed == [top EXCEPT !.entries = listing.entries]
           run == ScanFolderRun(workspaceRoot, ReplaceTop(scan.stack, listed))
           st == IF run.done
                 THEN ScanWorkspaceLoop(scan.idx + 1,
                         ScanWorkspaceStore(scan.idx, ScanState(c), run.files))
                 ELSE [ScanState(c) EXCEPT !.scan.stack = run.stack]
       IN  IF listing.threw
           THEN ScanRejected(c)
           ELSE /\ Install(st, c)
                /\ SearchAfterRead(c, st.scan)
    /\ UNCHANGED <<lruVars, maxSize, pendingUpdates, updateDebounceTimers, disk,
                   sinceEvent, events>>
    /\ UNCHANGED <<cfgVars, listening, testVars>>

\* the watcher of a root delivers onDidCreate / onDidDelete for a file
Notify(r, f, changeType) ==
    IF r \in fileWatchers
    THEN /\ pendingUpdates' = HandleFileChange(pendingUpdates, r, PathJoin(r, f), changeType)
         /\ updateDebounceTimers' = DebounceUpdate(updateDebounceTimers, r)
         /\ sinceEvent' = [sinceEvent EXCEPT ![r] = 0]
    ELSE UNCHANGED <<pendingUpdates, updateDebounceTimers, sinceEvent>>

\* a file appears on disk
FileCreated(r, f) ==
    /\ events < MaxEvents
    /\ f \in DiskFiles(r) \ disk[r]
    /\ disk' = [disk EXCEPT ![r] = @ \cup {f}]
    /\ events' = events + 1
    /\ Notify(r, f, "create")
    /\ UNCHANGED <<lruVars, cache, maxSize, fileWatchers, scans, mustRescan>>
    /\ UNCHANGED <<cfgVars, searchVars, testVars>>

\* a file disappears from disk
FileDeleted(r, f) ==
    /\ events < MaxEvents
    /\ f \in disk[r]
    /\ disk' = [disk EXCEPT ![r] = @ \ {f}]
    /\ events' = events + 1
    /\ Notify(r, f, "delete")
    /\ UNCHANGED <<lruVars, cache, maxSize, fileWatchers, scans, mustRescan>>
    /\ UNCHANGED <<cfgVars, searchVars, testVars>>

\* time passes
Tick ==
    /\ updateDebounceTimers' =
          [w \in DOMAIN updateDebounceTimers |->
              IF updateDebounceTimers[w] > TickMs THEN updateDebounceTimers[w] - TickMs ELSE 0]
    /\ sinceEvent' =
          [r \in Roots |->
              IF sinceEvent[r] + TickMs < debounceDelay THEN sinceEvent[r] + TickMs
              ELSE debounceDelay]
    /\ UNCHANGED <<lruVars, cache, maxSize, fileWatchers, pendingUpdates, disk, scans,
                   mustRescan, events>>
    /\ UNCHANGED <<cfgVars, searchVars, testVars>>

\* the debounce timer of a root fires (debounceUpdate, lines 186-189)
TimerFires(r) ==
    /\ r \in DOMAIN updateDebounceTimers
    /\ updateDebounceTimers[r] = 0
    /\ LET applied == ApplyIncrementalUpdates(cache, pendingUpdates, r) IN
          /\ cache' = applied[1]
          /\ pendingUpdates' = applied[2]
    /\ updateDebounceTimers' = MapRemove(updateDebounceTimers, r)
    /\ UNCHANGED <<lruVars, maxSize, fileWatchers, disk, scans, sinceEvent, mustRescan,
                   events>>
    /\ UNCHANGED <<cfgVars, searchVars, testVars>>

\* invalidateCache that leaves the query cache as it is
InvalidateCache_KeepQueries ==
    /\ cache' = <<>>
    /\ fileWatchers' = {}
    /\ pendingUpdates' = <<>>
    /\ updateDebounceTimers' = <<>>
    /\ searchCache' = searchCache
    /\ staleQueries' = MapKeys(searchCache')
    /\ mustRescan' = [r \in Roots |-> TRUE]
    /\ UNCHANGED <<lruVars, maxSize, disk, scans, sinceEvent, events>>
    /\ UNCHANGED <<cfgVars, searches, listening, testVars>>

\* FileScanner.invalidateCache: FileCache.clear and searchCache.clear
InvalidateCache ==
    /\ cache' = <<>>
    /\ fileWatchers' = {}
    /\ pendingUpdates' = <<>>
    /\ updateDebounceTimers' = <<>>
    /\ searchCache' = <<>>
    /\ staleQueries' = MapKeys(searchCache')
    /\ mustRescan' = [r \in Roots |-> TRUE]
    /\ UNCHANGED <<lruVars, maxSize, disk, scans, sinceEvent, events>>
    /\ UNCHANGED <<cfgVars, searches, listening, testVars>>

\* the global watcher reports a create/change/delete of .gitignore,
\* package.json or tsconfig.json
StructuralFileEvent == listening /\ InvalidateCache

\* ConfigurationManager notifies the listener of setupConfigListener
ConfigChanged == listening /\ InvalidateCache

\* FileCache.invalidateWorkspace
InvalidateWorkspace(r) ==
    /\ cache' = <<>>
    /\ fileWatchers' = fileWatchers \ {r}
    /\ pendingUpdates' = MapRemove(pendingUpdates, r)
    /\ updateDebounceTimers' = MapRemove(updateDebounceTimers, r)
    /\ UNCHANGED <<lruVars, maxSize, disk, scans, sinceEvent, mustRescan, events>>
    /\ UNCHANGED <<cfgVars, searchVars, testVars>>

\* the FileScanner and its environment
Next ==
    \/ \E c \in Calls : ScanWorkspace(c)
    \/ \E c \in Calls : ScanReaddir(c)
    \/ \E r \in Roots : \E f \in DiskFiles(r) : FileCreated(r, f)
    \/ \E r \in Roots : \E f \in DiskFiles(r) : FileDeleted(r, f)
    \/ Tick
    \/ \E r \in Roots : TimerFires(r)
    \/ StructuralFileEvent
    \/ ConfigChanged

Spec == Init /\ [][Next]_vars

\* the same, with the public method of FileCache that the FileScanner never
\* calls
NextFileCache ==
    \/ Next
    \/ \E r \in Roots : InvalidateWorkspace(r)

SpecFileCache == Init /\ [][NextFileCache]_vars

-----------------------------------------------------------------------------
(* Properties of the FileCache and of the scan *)

\* FileCache.getCachedFiles without its effect on the LRU order
HasCachedFiles(c, w) == MapHas(c, w)
CachedFiles(c, w) == MapGet(c, w)

\* C1: invalidateWorkspace(w) leaves every other cached root with the list it
\* had, and leaves w without a cached list.
C1_InvalidateOnlyThatWorkspace ==
    [][\A r \in Roots :
         InvalidateWorkspace(r) =>
            /\ ~HasCachedFiles(cache', r)
            /\ \A w \in Roots \ {r} :
                  HasCachedFiles(cache, w) =>
                     /\ HasCachedFiles(cache', w)
                     /\ CachedFiles(cache', w) = CachedFiles(cache, w)]_vars

\* C2: from a structural invalidation until scanWorkspace next asks the cache
\* for a root, the cache holds no list for that root (so that call scans).
C2_RescanAfterInvalidation ==
    \A r \in Roots : mustRescan[r] => ~HasCachedFiles(cache, r)

\* C3: a file notification changes no cached list when it arrives, re-arms the
\* full debounce delay for its own root and touches no other root's timer;
\* pending updates are merged only once debounceDelay ms have passed since the
\* root's last notification.
C3_DebouncedMerge ==
    [][/\ \A r \in Roots : \A f \in DiskFiles(r) :
            (FileCreated(r, f) \/ FileDeleted(r, f)) =>
               /\ cache' = cache
               /\ r \in fileWatchers =>
                     /\ r \in DOMAIN updateDebounceTimers'
                     /\ updateDebounceTimers'[r] = debounceDelay
               /\ \A w \in Roots \ {r} :
                     /\ (w \in DOMAIN updateDebounceTimers') = (w \in DOMAIN updateDebounceTimers)
                     /\ w \in DOMAIN updateDebounceTimers =>
                           updateDebounceTimers'[w] = updateDebounceTimers[w]
       /\ \A r \in Roots :
            TimerFires(r) => sinceEvent[r] >= debounceDelay]_vars

\* a second notification for a cached root arrived inside the window of the
\* first, while the window of the other root was running
C3_Witness ==
    \E r \in Roots : \E w \in Roots \ {r} :
        /\ HasCachedFiles(cache, r)
        /\ r \in DOMAIN pendingUpdates /\ Len(pendingUpdates[r]) = 2
        /\ r \in DOMAIN updateDebounceTimers /\ updateDebounceTimers[r] = debounceDelay
        /\ sinceEvent[r] = 0
        /\ w \in DOMAIN updateDebounceTimers /\ updateDebounceTimers[w] < debounceDelay

\* the list after merging the updates into the files
Merged(files, updates) == ApplyUpdates(NewSet(files), updates)

\* C4: when the debounce timer of a root with accumulated notifications fires,
\* the accumulated updates are merged into the root's list, and afterwards
\* the root has no pending updates and no armed timer.
C4_OneMergePerWindow ==
    [][\A r \in Roots :
         (TimerFires(r) /\ r \in DOMAIN pendingUpdates) =>
            /\ r \notin DOMAIN pendingUpdates'
            /\ r \notin DOMAIN updateDebounceTimers'
            /\ HasCachedFiles(cache', r)
            /\ HasCachedFiles(cache, r) =>
                  CachedFiles(cache', r) = Merged(CachedFiles(cache, r), pendingUpdates[r])]_vars

Count(seq, x) == Cardinality({i \in 1..Len(seq) : seq[i] = x})

PairwiseDistinct(seq) == \A i, j \in 1..Len(seq) : seq[i] = seq[j] => i = j

\* the paths a create notification of a root can carry: the path the watcher
\* reports for each file, and every path already in the root's list
CreatedPaths(r) ==
    {PathJoin(r, f) : f \in DiskFiles(r)}
        \cup (IF HasCachedFiles(cache, r) THEN Range(CachedFiles(cache, r)) ELSE {})

\* C5: for every cached list, every set of pending updates and every path p,
\* merging after two create notifications of p gives the list that merging
\* after one gives, and that list holds p at most once.
C5_CreateIdempotent ==
    \A r \in Roots :
        HasCachedFiles(cache, r) =>
            \A p \in CreatedPaths(r) :
                LET once == HandleFileChange(pendingUpdates, r, p, "create")
                    twice == HandleFileChange(once, r, p, "create")
                    files == CachedFiles(cache, r)
                IN  /\ Merged(files, twice[r]) = Merged(files, once[r])
                    /\ Count(Merged(files, once[r]), p) <= 1

\* a created path was merged into a list and a further create of the same
\* path is pending
C5_Witness ==
    \E r \in Roots :
        /\ HasCachedFiles(cache, r)
        /\ r \in DOMAIN pendingUpdates
        /\ \E p \in Range(pendingUpdates[r]) :
              /\ ~StartsWith(p, <<"-">>)
              /\ p \in Range(CachedFiles(cache, r))

\* the update string of the deletion / creation the watcher reports for file f
DeleteUpdate(r, f) == <<"-">> \o PathJoin(r, f)
CreateUpdate(r, f) == PathJoin(r, f)

\* C6: when a merge applies a deletion of file f (and no creation of f), the
\* entry of f, as the scan produced it, is not in the list afterwards; a merge
\* of nothing but deletions of paths that are not in the list leaves the list
\* as it was.
C6_DeletedFileLeavesIndex ==
    [][\A r \in Roots :
         (/\ TimerFires(r)
          /\ HasCachedFiles(cache, r)
          /\ r \in DOMAIN pendingUpdates) =>
            /\ \A f \in DiskFiles(r) :
                  (/\ DeleteUpdate(r, f) \in Range(pendingUpdates[r])
                   /\ CreateUpdate(r, f) \notin Range(pendingUpdates[r])) =>
                     getRelativePath(PathJoin(r, f), r) \notin Range(CachedFiles(cache', r))
            /\ (\A u \in Range(pendingUpdates[r]) :
                   /\ StartsWith(u, <<"-">>)
                   /\ Substring(u, 1) \notin Range(CachedFiles(cache, r))) =>
                  CachedFiles(cache', r) = CachedFiles(cache, r)]_vars

\* C7: every entry of every cached list is a relative forward-slash path.
C7_EntriesRelative ==
    \A r \in Roots :
        HasCachedFiles(cache, r) =>
            \A p \in Range(CachedFiles(cache, r)) : IsRelativeEntry(p)

\* the directory prefixes of a relative path: "s/t/f" has "s" and "s/t"
DirectoryPrefixes(rel) ==
    {SubSeq(rel, 1, i - 1) : i \in {j \in 1..Len(rel) : rel[j] = "/"}}

\* the traversal does not descend into directory dir (relative to the root):
\* known-large name, hidden with showHiddenFiles = false, or excluded
Pruned(dir) ==
    \/ ToLowerCase(Basename(dir)) \in KnownLargeDirectories
    \/ ~shouldIncludeFile(dir, showHiddenFiles)
    \/ shouldExcludePath(dir, DEFAULT_EXCLUDE_PATTERNS, <<>>, TRUE)

\* the entry names a file inside a directory that the traversal prunes
InPrunedDirectory(r, entry) ==
    LET rel == IF StartsWith(entry, r \o <<"/">>) THEN PathRelative(r, entry) ELSE entry
    IN  \E dir \in DirectoryPrefixes(rel) : Pruned(dir)

\* C8: the entries of every cached list are pairwise distinct and none lies
\* inside a directory that the traversal prunes.
C8_DistinctAndUnpruned ==
    \A r \in Roots :
        HasCachedFiles(cache, r) =>
            /\ PairwiseDistinct(CachedFiles(cache, r))
            /\ \A p \in Range(CachedFiles(cache, r)) : ~InPrunedDirectory(r, p)

\* file f of root r is in the list, as the scan or as the watcher names it
InIndex(files, r, f) ==
    getRelativePath(PathJoin(r, f), r) \in Range(files) \/ PathJoin(r, f) \in Range(files)

\* C35: when a merge applies both creations and deletions of a file f that
\* were notified within the window (f not in a pruned directory), the last
\* notification decides: f is in the list afterwards if it was a creation
\* (f exists) and absent if it was a deletion
C35_LastNotificationDecides ==
    [][\A r \in Roots :
         (/\ TimerFires(r)
          /\ HasCachedFiles(cache, r)
          /\ r \in DOMAIN pendingUpdates) =>
            \A f \in DiskFiles(r) :
                (/\ ~InPrunedDirectory(r, f)
                 /\ DeleteUpdate(r, f) \in Range(pendingUpdates[r])
                 /\ CreateUpdate(r, f) \in Range(pendingUpdates[r])) =>
                    (InIndex(CachedFiles(cache', r), r, f) <=> f \in disk[r])]_vars

\* C36: a root with a registered watcher, a pending-update set or an armed
\* debounce timer has a cached list: eviction releases all three
C36_EvictionReleasesWatcher ==
    \A r \in Roots :
        (\/ r \in fileWatchers
         \/ r \in DOMAIN pendingUpdates
         \/ r \in DOMAIN updateDebounceTimers) => HasCachedFiles(cache, r)

-----------------------------------------------------------------------------
(* A first scan with files created while it runs: no invalidation, and every *)
(* step that can be taken is taken in the end                                *)

InitRebuild ==
    /\ InitLRUIdle
    /\ cache = <<>>
    /\ maxSize \in {1, MaxCap}
    /\ fileWatchers = {}
    /\ pendingUpdates = <<>>
    /\ updateDebounceTimers = <<>>
    /\ disk = [r \in Roots |-> IF r = Root1 THEN {<<"s", "/", "b">>} ELSE {}]
    /\ scans = [c \in Calls |-> IdleScan]
    /\ sinceEvent = [r \in Roots |-> debounceDelay]
    /\ mustRescan = [r \in Roots |-> FALSE]
    /\ events = 0
    /\ config = DEFAULT_CONFIG
    /\ gitignores = <<>>
    /\ unreadable = {}
    /\ probe = NoProbe
    /\ validityDuration = Undefined
    /\ listeners = <<>>
    /\ disposables = {"configWatcher"}
    /\ lastChange = NoChange
    /\ sinceSet = [r \in Roots |-> 0]
    /\ searchCache = <<>>
    /\ searches = [c \in Calls |-> IdleSearch]
    /\ listening = TRUE
    /\ staleQueries = {}

NextRebuild ==
    \/ \E c \in Calls : ScanWorkspace(c)
    \/ \E c \in Calls : ScanReaddir(c)
    \/ \E r \in Roots : \E f \in DiskFiles(r) : FileCreated(r, f)
    \/ Tick
    \/ \E r \in Roots : TimerFires(r)

\* scans are called again and again, no scan waits for a readdir for ever,
\* time passes and armed timers fire
SpecRebuild ==
    /\ InitRebuild
    /\ [][NextRebuild]_vars
    /\ WF_vars(\E c \in Calls : ScanWorkspace(c))
    /\ []<>(\A c \in Calls : scans[c].pc # "readdir")
    /\ WF_vars(Tick)
    /\ \A r \in Roots : WF_vars(TimerFires(r))

\* file a of /1 exists, and a scan of /1 that listed the root without it is
\* suspended in the subfolder
CreatedBehindScan ==
    \E c \in Calls :
        /\ scans[c].pc = "readdir"
        /\ scans[c].idx = 1
        /\ Len(scans[c].stack) = 2
        /\ <<"a">> \in disk[Root1]
        /\ <<"a">> \notin Range(scans[c].stack[1].files)

\* C37: a file created in a root while a scan of the root is suspended,
\* after its directory was listed, is an entry of the root's cached list in
\* the end, without a structural invalidation
C37_NoEventLostToRebuild ==
    CreatedBehindScan ~>
        (HasCachedFiles(cache, Root1) /\ InIndex(CachedFiles(cache, Root1), Root1, <<"a">>))

-----------------------------------------------------------------------------
(* Direct calls of scanFolder and of matchesGitignorePattern on a folder     *)
(* outside the workspace, for every configuration                            *)

MaxBudget == 2       \* largest maxFiles a direct scanFolder call is given

\* the files of the folder
ScanTrees == {
    {},
    {<<"a">>, <<"s", "/", "b">>, <<"x">>},
    {<<"a">>, <<"s", "/", "b">>, <<"s", "/", "x">>, <<"x">>},
    {<<"s", "/", "b">>, <<"s", "/", "x">>, <<"O", "u", "t", "/", "x">>},
    {<<"a">>, <<"O", "u", "t", "/", "x">>, <<".", "g", "i", "t", "/", "x">>, <<"x">>}}

\* the .gitignore files of the folder
ScanGitignores == {
    <<>>,
    [f \in {Root3} |-> <<<<"x">>>>],
    [f \in {PathJoin(Root3, <<"s">>)} |-> <<<<"#", "c">>, <<" ", "x">>, <<"!", "b">>>>],
    [f \in {Root3, PathJoin(Root3, <<"s">>)} |->
        IF f = Root3 THEN <<<<"s", "/">>>> ELSE <<<<"b">>>>]}

ScanConfigs ==
    {[exclude |-> e, maxResults |-> 50, showHiddenFiles |-> h, useGitignore |-> g] :
        e \in {<<>>, DEFAULT_EXCLUDE_PATTERNS}, h \in BOOLEAN, g \in BOOLEAN}

\* arguments of matchesGitignorePattern
ProbePaths == {
    <<"x">>, <<"s">>, <<"s", "/", "x">>, <<"s", "x", "/", "x">>, <<"t", "/", "x">>,
    <<"s", "/", "t", "/", "x">>, <<"x", ".", "l">>, <<"s", "/", "x", ".", "l">>,
    <<"s", "/", "t", "/", "x", ".", "l">>}
ProbePatterns == {
    <<"x">>, <<"x", ".", "l">>, <<"*", ".", "l">>, <<"?">>, <<"x", "/">>,
    <<"/", "x">>, <<"*", "*", "/", "x">>, <<"t", "/", "x">>}
ProbeBaseDirs == {<<".">>, <<"s">>}

InitScan ==
    /\ InitLRUIdle
    /\ cache = <<>>
    /\ maxSize = 1
    /\ fileWatchers = {}
    /\ pendingUpdates = <<>>
    /\ updateDebounceTimers = <<>>
    /\ disk \in {[r \in {Root3} |-> tree] : tree \in ScanTrees}
    /\ scans = [c \in Calls |-> IdleScan]
    /\ sinceEvent = [r \in Roots |-> debounceDelay]
    /\ mustRescan = [r \in Roots |-> FALSE]
    /\ events = 0
    /\ config \in ScanConfigs
    /\ gitignores \in ScanGitignores
    /\ unreadable = {}
    /\ probe = NoProbe
    /\ validityDuration = Undefined
    /\ listeners = <<>>
    /\ disposables = {"configWatcher"}
    /\ lastChange = NoChange
    /\ sinceSet = [r \in Roots |-> 0]
    /\ searchCache = <<>>
    /\ searches = [c \in Calls |-> IdleSearch]
    /\ listening = TRUE
    /\ staleQueries = {}

\* scanFolder(Root3, Root3, exclude, showHiddenFiles, useGitignore, [], max),
\* up to its readdir
ScanFolderCall(c, max) ==
    /\ scans[c].pc = "idle"
    /\ scans' = [scans EXCEPT ![c] =
          [pc |-> "scanFolder", idx |-> 0, out |-> <<>>,
           stack |-> <<Frame(Root3, max, CurrentGitignorePatterns(Root3, Root3, <<>>))>>]]
    /\ probe' = [fn |-> "scanFolder", maxFiles |-> max, returned |-> FALSE, files |-> <<>>]
    /\ UNCHANGED <<lruVars, cacheVars, disk, histVars, cfgVars, searchVars, validityDuration, sinceSet,
                   mgrVars>>

\* a readdir of the direct call completes: scanFolder goes on to its next
\* readdir or returns
ScanFolderReaddir(c) ==
    /\ scans[c].pc = "scanFolder"
    /\ LET scan == scans[c]
           top == scan.stack[Len(scan.stack)]
           listing == ScanFolderCatch(ReaddirResult(Root3, top.folderPath, disk[Root3]))
           listed == [top EXCEPT !.entries = listing.entries]
           run == ScanFolderRun(Root3, ReplaceTop(scan.stack, listed))
       IN  IF listing.threw
           THEN /\ scans' = [scans EXCEPT ![c] = [IdleScan EXCEPT !.pc = "rejected"]]
                /\ UNCHANGED probe
           ELSE IF run.done
           THEN /\ scans' = [scans EXCEPT ![c] = IdleScan]
                /\ probe' = [probe EXCEPT !.returned = TRUE, !.files = run.files]
           ELSE /\ scans' = [scans EXCEPT ![c].stack = run.stack]
                /\ UNCHANGED probe
    /\ UNCHANGED <<lruVars, cacheVars, disk, histVars, cfgVars, searchVars, validityDuration, sinceSet,
                   mgrVars>>

\* a call of matchesGitignorePattern, the first call made
MatchGitignore(relativePath, gitignorePattern, isDirectory) ==
    /\ \A c \in Calls : scans[c].pc = "idle"
    /\ probe = NoProbe
    /\ probe' = [fn |-> "matchesGitignorePattern",
                 relativePath |-> relativePath,
                 gitignorePattern |-> gitignorePattern,
                 isDirectory |-> isDirectory,
                 result |-> matchesGitignorePattern(relativePath, gitignorePattern,
                                                    isDirectory)]
    /\ UNCHANGED <<lruVars, cacheVars, envVars, histVars, cfgVars, searchVars, validityDuration, sinceSet,
                   mgrVars>>

NextScan ==
    \/ \E c \in Calls : \E max \in (1..MaxBudget) \cup {maxFiles} : ScanFolderCall(c, max)
    \/ \E c \in Calls : ScanFolderReaddir(c)
    \/ \E relativePath \in ProbePaths, pattern \in ProbePatterns,
          baseDir \in ProbeBaseDirs, isDirectory \in BOOLEAN :
            MatchGitignore(relativePath, [pattern |-> pattern, baseDir |-> baseDir],
                           isDirectory)

SpecScan == InitScan /\ [][NextScan]_vars

\* C15: a scanFolder call that was given the budget maxFiles returns at most
\* maxFiles entries, counted over the whole recursion.
C15_GlobalBudget ==
    (probe.fn = "scanFolder" /\ probe.returned) => Len(probe.files) <= probe.maxFiles

\* the names of the directories on the way to a relative path
DirectorySegments(rel) == {Basename(dir) : dir \in DirectoryPrefixes(rel)}

\* C18: under every configuration, no path a scan returns has a directory
\* segment whose lower-cased name is one of the known large directories.
C18_KnownLargePruned ==
    (probe.fn = "scanFolder" /\ probe.returned) =>
        \A p \in Range(probe.files) :
            \A name \in DirectorySegments(p) :
                ToLowerCase(name) \notin KnownLargeDirectories

\* a scan with hidden files shown, no exclude rule and no gitignore returned
\* the files of a folder that also holds files below Out and below .git
C18_Witness ==
    /\ probe.fn = "scanFolder" /\ probe.returned
    /\ config.showHiddenFiles /\ config.exclude = <<>> /\ ~config.useGitignore
    /\ <<"O", "u", "t", "/", "x">> \in disk[Root3]
    /\ <<".", "g", "i", "t", "/", "x">> \in disk[Root3]
    /\ probe.maxFiles = maxFiles
    /\ Range(probe.files) = {<<"a">>, <<"x">>}

\* the directory dir is baseDir or lies below it
AtOrBelow(dir, baseDir) ==
    baseDir = <<".">> \/ dir = baseDir \/ StartsWith(dir, baseDir \o <<"/">>)

\* C19: a rule whose baseDir is not "." never matches a path that is not
\* strictly below baseDir; and the rules in force while scanFolder works on a
\* folder come from the .gitignore of that folder or of one of its ancestors.
C19_GitignoreScoped ==
    /\ probe.fn = "matchesGitignorePattern" =>
          LET baseDir == probe.gitignorePattern.baseDir IN
          (baseDir # <<".">> /\ ~StartsWith(probe.relativePath, baseDir \o <<"/">>))
              => ~probe.result
    /\ \A c \in Calls :
          \A i \in 1..Len(scans[c].stack) :
              LET frame == scans[c].stack[i] IN
              \A j \in 1..Len(frame.gitignore) :
                  AtOrBelow(PathRelative(Root3, frame.folderPath),
                            frame.gitignore[j].baseDir)

\* the rule {pattern x, baseDir s} was tried on the sibling path sx/x
C19_Witness ==
    /\ probe.fn = "matchesGitignorePattern"
    /\ probe.gitignorePattern = [pattern |-> <<"x">>, baseDir |-> <<"s">>]
    /\ probe.relativePath = <<"s", "x", "/", "x">>
    /\ ~probe.result

\* scanFolder works on folder s with the rule of s/.gitignore in force
C19_ScanReachesSubfolderRule ==
    \E c \in Calls :
        /\ Len(scans[c].stack) = 2
        /\ \E j \in 1..Len(scans[c].stack[2].gitignore) :
              scans[c].stack[2].gitignore[j].baseDir = <<"s">>

\* C20: a pattern without "/" matches every path in the scope of its rule
\* whose basename matches the pattern, whatever the depth of the path.
C20_BasenameAnyDepth ==
    probe.fn = "matchesGitignorePattern" =>
        LET pattern == probe.gitignorePattern.pattern
            baseDir == probe.gitignorePattern.baseDir
        IN  (/\ ~Includes(pattern, <<"/">>)
             /\ GitignoreInScope(probe.relativePath, baseDir)
             /\ GlobRegexTest(pattern, Basename(probe.relativePath)))
                => probe.result

-----------------------------------------------------------------------------
(* Searches: getMatchingFiles, getMatchingFilesAsync, cancellation, dispose  *)

\* the queries typed: "a", its refinement "at", and "s"
Queries == {<<"a">>, <<"a", "t">>, <<"s">>}

\* config.maxResults: the default, and a cap below the number of matches
SearchMaxResults == {1, DEFAULT_CONFIG.maxResults}

\* the files searched: the initial files and one more that "a" matches
SearchFiles(r) ==
    InitialFiles(r) \cup (IF r = Root1 THEN {<<"s", "/", "a">>} ELSE {})

InitSearch ==
    /\ InitLRUIdle
    /\ cache = <<>>
    /\ maxSize \in {1, MaxCap}
    /\ fileWatchers = {}
    /\ pendingUpdates = <<>>
    /\ updateDebounceTimers = <<>>
    /\ disk = [r \in Roots |-> SearchFiles(r)]
    /\ scans = [c \in Calls |-> IdleScan]
    /\ sinceEvent = [r \in Roots |-> debounceDelay]
    /\ mustRescan = [r \in Roots |-> FALSE]
    /\ events = 0
    /\ config \in {[DEFAULT_CONFIG EXCEPT !.maxResults = n] : n \in SearchMaxResults}
    /\ gitignores = <<>>
    /\ unreadable = {}
    /\ probe = NoProbe
    /\ validityDuration = Undefined
    /\ listeners = <<>>
    /\ disposables = {"configWatcher"}
    /\ lastChange = NoChange
    /\ sinceSet = [r \in Roots |-> 0]
    /\ searchCache = <<>>
    /\ searches = [c \in Calls |-> IdleSearch]
    /\ listening = TRUE
    /\ staleQueries = {}

\* getMatchingFiles(query, token), or getMatchingFilesAsync(query, token) up
\* to the return of its getMatchingFiles: lines 403-427, and the rest of the
\* method when scanWorkspace returns without reading a directory
GetMatchingFiles(c, query, streaming, isCancellationRequested) ==
    /\ searches[c].pc \in {"idle", "returned"}
    /\ searches[c].stream # "open"
    /\ scans[c].pc = "idle"
    /\ LET call == [IdleSearch EXCEPT !.query = query, !.streaming = streaming,
                                      !.cancelled = isCancellationRequested]
       IN  IF HasCachedResults(searchCache, query)
           THEN LET got == getCachedResults(searchCache, query) IN
                /\ searchCache' = got[2]
                /\ searches' = [searches EXCEPT ![c] =
                      Returned(call, NarrowCached(got[1], query), TRUE)]
                /\ UNCHANGED <<cache, fileWatchers, mustRescan, scans, staleQueries>>
           ELSE IF isCancellationRequested
           THEN /\ searches' = [searches EXCEPT ![c] = Returned(call, <<>>, FALSE)]
                /\ UNCHANGED <<cache, fileWatchers, mustRescan, scans, searchCache,
                               staleQueries>>
           ELSE LET st == ScanWorkspaceLoop(1, [ScanState(c) EXCEPT !.scan.out = <<>>])
                IN  /\ Install(st, c)
                    /\ IF st.scan.pc = "idle"
                       THEN FinishSearch(c, call, st.scan.out)
                       ELSE /\ searches' = [searches EXCEPT ![c] =
                                  [call EXCEPT !.pc = "scanning"]]
                            /\ UNCHANGED <<searchCache, staleQueries>>
    /\ UNCHANGED <<lruVars, maxSize, pendingUpdates, updateDebounceTimers, disk,
                   sinceEvent, events, cfgVars, listening, testVars>>

\* the caller cancels the token of a search that has not finished
CancelToken(c) ==
    /\ searches[c].pc = "scanning" \/ searches[c].stream = "open"
    /\ ~searches[c].cancelled
    /\ searches' = [searches EXCEPT ![c].cancelled = TRUE]
    /\ UNCHANGED <<lruVars, cacheVars, envVars, histVars, cfgVars, testVars,
                   searchCache, listening, staleQueries>>

\* getMatchingFilesAsync that hands the batch processor a token of its own
StreamNext_OwnToken(c) ==
    /\ searches[c].stream = "open"
    /\ searches' = [searches EXCEPT ![c] =
          IF YieldsBatch(searches[c].result, searches[c].batches, FALSE)
          THEN [@ EXCEPT !.batches = @ + 1,
                         !.late = IF searches[c].cancelled THEN @ + 1 ELSE @]
          ELSE [@ EXCEPT !.stream = "done"]]
    /\ UNCHANGED <<lruVars, cacheVars, envVars, histVars, cfgVars, testVars,
                   searchCache, listening, staleQueries>>

\* getMatchingFilesAsync, lines 487-489: the consumer asks for the next batch
\* of processFuzzyMatchBatches(matches, token)
StreamNext(c) ==
    /\ searches[c].stream = "open"
    /\ searches' = [searches EXCEPT ![c] =
          IF YieldsBatch(searches[c].result, searches[c].batches, searches[c].cancelled)
          THEN [@ EXCEPT !.batches = @ + 1,
                         !.late = IF searches[c].cancelled THEN @ + 1 ELSE @]
          ELSE [@ EXCEPT !.stream = "done"]]
    /\ UNCHANGED <<lruVars, cacheVars, envVars, histVars, cfgVars, testVars,
                   searchCache, listening, staleQueries>>

\* FileScanner.dispose: the watcher and the listener are disposed, both
\* caches are cleared
Dispose ==
    /\ listening' = FALSE
    /\ cache' = <<>>
    /\ fileWatchers' = {}
    /\ pendingUpdates' = <<>>
    /\ updateDebounceTimers' = <<>>
    /\ searchCache' = <<>>
    /\ staleQueries' = MapKeys(searchCache')
    /\ UNCHANGED <<lruVars, maxSize, disk, scans, histVars, cfgVars, searches, testVars>>

NextSearch ==
    \/ \E c \in Calls : \E query \in Queries : \E streaming, cancelled \in BOOLEAN :
          GetMatchingFiles(c, query, streaming, cancelled)
    \/ \E c \in Calls : ScanReaddir(c)
    \/ \E c \in Calls : CancelToken(c)
    \/ \E c \in Calls : StreamNext(c)
    \/ StructuralFileEvent
    \/ ConfigChanged
    \/ Dispose

SpecSearch == InitSearch /\ [][NextSearch]_vars

\* the consumer of a stream keeps asking for the next batch
SpecSearchLive == SpecSearch /\ WF_vars(\E c \in Calls : StreamNext(c))

\* scanFolder of one workspace folder run to its return on the present disk
RECURSIVE ScanToEnd(_, _)
ScanToEnd(workspaceRoot, stack) ==
    LET top == stack[Len(stack)]
        listing == ScanFolderCatch(ReaddirResult(workspaceRoot, top.folderPath,
                                                 disk[workspaceRoot]))
        listed == [top EXCEPT !.entries = listing.entries]
        run == ScanFolderRun(workspaceRoot, ReplaceTop(stack, listed))
    IN  IF run.done THEN run.files ELSE ScanToEnd(workspaceRoot, run.stack)

\* scanWorkspace with nothing cached: the files of folders idx.. in order
RECURSIVE FreshScanFrom(_)
FreshScanFrom(idx) ==
    IF idx > Len(workspaceFolders) THEN <<>>
    ELSE LET workspacePath == workspaceFolders[idx]
         IN  ScanToEnd(workspacePath,
                       <<Frame(workspacePath, maxFiles,
                               CurrentGitignorePatterns(workspacePath, workspacePath,
                                                        <<>>))>>)
             \o FreshScanFrom(idx + 1)

\* what getMatchingFiles(query) returns on a cache miss, on the present disk
FreshSearch(query) ==
    LET allFiles == FreshScanFrom(1) IN
    IF allFiles = <<>> THEN <<>>
    ELSE Slice(MissMatches(query, allFiles), config.maxResults)

\* C12: a getMatchingFiles call answered from the query cache returns the
\* very sequence (paths, order, scores) the same call returns on a cache miss
\* over the unchanged file set
C12_HitEqualsMiss ==
    \A c \in Calls :
        (searches[c].pc = "returned" /\ searches[c].hit)
            => searches[c].result = FreshSearch(searches[c].query)

\* C13: narrowing invariant.  For every cached result set R of a query q and
\* every query q2 that has q as a prefix, narrowing R with q2 gives the
\* matches of a fresh search for q2 restricted to the paths in R, with the
\* same scores in the same order
C13_NarrowingInvariant ==
    \A q \in MapKeys(searchCache) : \A q2 \in Queries :
        StartsWith(q2, q) =>
            LET R == MapGet(searchCache, q)
            IN  NarrowCached(R, q2)
                  = SelectSeq(FreshSearch(q2), LAMBDA m : m.path \in Range(Paths(R)))

\* C14: an invalidation of the workspace index (structural file event,
\* configuration change, dispose) clears the query cache in the same step: no
\* entry stored before an invalidation is left to answer a later search
C14_QueryCacheClearedWithIndex == staleQueries = {}

\* an invalidation has emptied a query cache that held the matches of a search
C14_Witness ==
    /\ searchCache = <<>>
    /\ \E c \in Calls :
          /\ searches[c].pc = "returned"
          /\ ~searches[c].hit
          /\ searches[c].result # <<>>

\* C16: once the token of a scanning search is cancelled, only the directory
\* read already started completes; no further directory is read
C16_ScanStopsOnCancel == \A c \in Calls : searches[c].reads <= 1

EmptyQueries == {<<>>, <<"a">>}

NextSearchEmpty ==
    \/ \E c \in Calls : \E query \in EmptyQueries : \E streaming, cancelled \in BOOLEAN :
          GetMatchingFiles(c, query, streaming, cancelled)
    \/ \E c \in Calls : ScanReaddir(c)
    \/ \E c \in Calls : CancelToken(c)
    \/ \E c \in Calls : StreamNext(c)
    \/ StructuralFileEvent
    \/ ConfigChanged
    \/ Dispose

SpecSearchEmpty == InitSearch /\ [][NextSearchEmpty]_vars

\* the first n entries of the index, each with score 0
FirstOfIndex(allFiles, n) ==
    [i \in 1..(IF Len(allFiles) < n THEN Len(allFiles) ELSE n) |->
        [path |-> allFiles[i], score |-> <<0, 1>>, matches |-> <<>>]]

-----------------------------------------------------------------------------
(* Direct calls of scanFolder under the default exclude rules, on folders    *)
(* that hold any of the files of ExcludeTree                                 *)

ExcludeTree == {
    <<"a">>,
    <<"x", ".", "l", "o", "g">>,
    <<"t", "m", "p", "/", "x">>,
    <<"s", "/", "x", ".", "l", "o", "g">>,
    <<"s", "/", "t", "m", "p", "/", "x">>,
    <<"i", ".", "g", "i", "t", "b", "o", "o", "k", ".", "m", "d">>,
    <<"n", "o", "d", "e", "_", "m", "o", "d", "u", "l", "e", "s", "_", "h", "e", "l", "p", "e", "r", ".", "t", "s">>}

InitExclude ==
    /\ InitLRUIdle
    /\ cache = <<>>
    /\ maxSize = 1
    /\ fileWatchers = {}
    /\ pendingUpdates = <<>>
    /\ updateDebounceTimers = <<>>
    /\ disk \in {[r \in {Root3} |-> tree] : tree \in SUBSET ExcludeTree}
    /\ scans = [c \in Calls |-> IdleScan]
    /\ sinceEvent = [r \in Roots |-> debounceDelay]
    /\ mustRescan = [r \in Roots |-> FALSE]
    /\ events = 0
    /\ config \in {[DEFAULT_CONFIG EXCEPT !.showHiddenFiles = h] : h \in BOOLEAN}
    /\ gitignores = <<>>
    /\ unreadable = {}
    /\ probe = NoProbe
    /\ validityDuration = Undefined
    /\ listeners = <<>>
    /\ disposables = {"configWatcher"}
    /\ lastChange = NoChange
    /\ sinceSet = [r \in Roots |-> 0]
    /\ searchCache = <<>>
    /\ searches = [c \in Calls |-> IdleSearch]
    /\ listening = TRUE
    /\ staleQueries = {}

NextExclude ==
    \/ \E c \in Calls : ScanFolderCall(c, maxFiles)
    \/ \E c \in Calls : ScanFolderReaddir(c)

SpecExclude == InitExclude /\ [][NextExclude]_vars

\* the segments of a relative path, the file name included
SegmentsOf(rel) == Range(SplitSlash(rel))

\* C33: with the default configuration no scan result holds a path with a
\* segment named tmp or a file ending in .log, at any depth, directly under
\* the root included
C33_DefaultsExcludeAtEveryDepth ==
    (probe.fn = "scanFolder" /\ probe.returned) =>
        \A p \in Range(probe.files) :
            /\ <<"t", "m", "p">> \notin SegmentsOf(p)
            /\ ~EndsWith(p, <<".", "l", "o", "g">>)

GitRules == {<<"*", "*", "/", ".", "g", "i", "t">>, <<"*", "*", "/", "n", "o", "d", "e", "_", "m", "o", "d", "u", "l", "e", "s">>}

\* a rule of the configuration other than the .git and node_modules rules,
\* the early exclusion or the hidden-file rule keeps path p out of a scan
ExcludedOtherwise(p) ==
    \/ ~shouldIncludeFile(p, showHiddenFiles)
    \/ ToLowerCase(Basename(p)) \in KnownLargeDirectories
    \/ \E i \in 1..Len(config.exclude) :
          /\ config.exclude[i] \notin GitRules
          /\ matchesGlobPattern(p, config.exclude[i])

\* C34: the rules **/.git and **/node_modules exclude only paths with a
\* segment equal to .git or node_modules: a file of the folder without such
\* a segment is left out of a scan only if something else excludes it or one
\* of its directories
C34_GitRulesMatchWholeSegments ==
    (probe.fn = "scanFolder" /\ probe.returned) =>
        \A f \in disk[Root3] :
            (/\ f \notin Range(probe.files)
             /\ SegmentsOf(f) \cap {<<".", "g", "i", "t">>, <<"n", "o", "d", "e", "_", "m", "o", "d", "u", "l", "e", "s">>} = {})
                => \E p \in DirectoryPrefixes(f) \cup {f} : ExcludedOtherwise(p)

-----------------------------------------------------------------------------
(* Scans and searches over folders and .gitignore files that cannot be read  *)

\* the paths that may be unreadable: roots, subfolders, .gitignore files
UnreadablePaths ==
    {Root1, PathJoin(Root1, <<"s">>), GitignorePath(Root1), Root2,
     Root3, PathJoin(Root3, <<"s">>), GitignorePath(Root3)}

\* the files below the folder of the direct scanFolder calls
UnreadableTree == {<<"a">>, <<"s", "/", "b">>, <<"s", "/", "x">>, <<"x">>}

InitUnreadable ==
    /\ InitLRUIdle
    /\ cache = <<>>
    /\ maxSize = MaxCap
    /\ fileWatchers = {}
    /\ pendingUpdates = <<>>
    /\ updateDebounceTimers = <<>>
    /\ disk = [r \in Roots \cup {Root3} |->
                  IF r = Root3 THEN UnreadableTree ELSE SearchFiles(r)]
    /\ scans = [c \in Calls |-> IdleScan]
    /\ sinceEvent = [r \in Roots |-> debounceDelay]
    /\ mustRescan = [r \in Roots |-> FALSE]
    /\ events = 0
    /\ config \in {[DEFAULT_CONFIG EXCEPT !.useGitignore = g] : g \in BOOLEAN}
    /\ gitignores = [f \in {Root1, Root3} |-> <<<<"x">>, <<"b">>>>]
    /\ unreadable \in SUBSET UnreadablePaths
    /\ probe = NoProbe
    /\ validityDuration = Undefined
    /\ listeners = <<>>
    /\ disposables = {"configWatcher"}
    /\ lastChange = NoChange
    /\ sinceSet = [r \in Roots |-> 0]
    /\ searchCache = <<>>
    /\ searches = [c \in Calls |-> IdleSearch]
    /\ listening = TRUE
    /\ staleQueries = {}

NextUnreadable ==
    \/ \E c \in Calls : \E query \in EmptyQueries : GetMatchingFiles(c, query, FALSE, FALSE)
    \/ \E c \in Calls : ScanReaddir(c)
    \/ \E c \in Calls : ScanFolderCall(c, maxFiles)
    \/ \E c \in Calls : ScanFolderReaddir(c)
    \/ ConfigChanged

SpecUnreadable == InitUnreadable /\ [][NextUnreadable]_vars

\* the files of root r that a scan can reach: the root and every directory
\* on the way can be listed and is not pruned, and no rule of the root's
\* .gitignore (when it is in use and can be read) excludes the file
Indexable(r) ==
    IF r \in unreadable THEN {}
    ELSE {f \in disk[r] :
            /\ \A d \in DirectoryPrefixes(f) :
                  /\ PathJoin(r, d) \notin unreadable
                  /\ ToLowerCase(Basename(d)) \notin KnownLargeDirectories
                  /\ ~shouldExcludePath(d, config.exclude,
                                        CurrentGitignorePatterns(r, r, <<>>), TRUE)
            /\ shouldIncludeFile(f, showHiddenFiles)
            /\ ~shouldExcludePath(f, config.exclude,
                                  CurrentGitignorePatterns(r, r, <<>>), FALSE)}

\* C26: no filesystem failure leaves a scan or a search: for every set of
\* unreadable folders (roots included) and unreadable .gitignore files the
\* scan returns, an unreadable folder contributes no entry, every file in a
\* readable subtree is indexed (an unreadable .gitignore excludes nothing),
\* and a search over roots that cannot be read returns the empty result
C26_NoFailurePropagates ==
    /\ \A c \in Calls : scans[c].pc # "rejected" /\ searches[c].pc # "rejected"
    /\ (probe # NoProbe /\ probe.returned) => Range(probe.files) = Indexable(Root3)
    /\ \A r \in Roots : MapHas(cache, r) => Range(MapGet(cache, r)) = Indexable(r)
    /\ \A c \in Calls :
          (searches[c].pc = "returned" /\ ~searches[c].hit)
              => /\ Range(Paths(searches[c].result))
                       \subseteq UNION {Indexable(r) : r \in Roots}
                 /\ (Roots \subseteq unreadable => searches[c].result = <<>>)

\* a scan has returned the files next to an unreadable subfolder, with the
\* .gitignore of the folder unreadable too, and a search over a workspace
\* with an unreadable root has returned
C26_Witness ==
    /\ probe # NoProbe
    /\ probe.returned
    /\ PathJoin(Root3, <<"s">>) \in unreadable
    /\ GitignorePath(Root3) \in unreadable
    /\ config.useGitignore
    /\ probe.files = <<<<"a">>, <<"x">>>>
    /\ \E c \in Calls :
          /\ searches[c].pc = "returned"
          /\ ~searches[c].hit
          /\ Root1 \in unreadable
          /\ searches[c].result # <<>>

-----------------------------------------------------------------------------
(* Two callers at once: searches and scans that overlap each other, the      *)
(* merges of the watcher and the invalidations                               *)

\* the calls that can be in flight at the same time
ConcurrentCalls == {"c1", "c2"}

InitConcurrent ==
    /\ InitLRUIdle
    /\ cache = <<>>
    /\ maxSize \in {1, MaxCap}
    /\ fileWatchers = {}
    /\ pendingUpdates = <<>>
    /\ updateDebounceTimers = <<>>
    /\ disk = [r \in Roots |-> InitialFiles(r)]
    /\ scans = [c \in ConcurrentCalls |-> IdleScan]
    /\ sinceEvent = [r \in Roots |-> debounceDelay]
    /\ mustRescan = [r \in Roots |-> FALSE]
    /\ events = 0
    /\ config = DEFAULT_CONFIG
    /\ gitignores = <<>>
    /\ unreadable = {}
    /\ probe = NoProbe
    /\ validityDuration = Undefined
    /\ listeners = <<>>
    /\ disposables = {"configWatcher"}
    /\ lastChange = NoChange
    /\ sinceSet = [r \in Roots |-> 0]
    /\ searchCache = <<>>
    /\ searches = [c \in ConcurrentCalls |-> IdleSearch]
    /\ listening = TRUE
    /\ staleQueries = {}

NextConcurrent ==
    \/ \E c \in ConcurrentCalls : GetMatchingFiles(c, <<>>, FALSE, FALSE)
    \/ \E c \in ConcurrentCalls : ScanReaddir(c)
    \/ FileCreated(Root1, <<"a">>)
    \/ FileDeleted(Root1, <<"a">>)
    \/ Tick
    \/ \E r \in Roots : TimerFires(r)
    \/ ConfigChanged

SpecConcurrent == InitConcurrent /\ [][NextConcurrent]_vars

\* in this step call c finishes its scanFolder of root r
FinishesScanOf(c, r) ==
    /\ scans[c].pc = "readdir"
    /\ workspaceFolders[scans[c].idx] = r
    /\ scans'[c].pc = "idle" \/ scans'[c].idx > scans[c].idx

\* the complete lists at hand in a step: the cached lists before and after it
WholeLists ==
    {<<>>} \cup {MapGet(cache, w) : w \in MapKeys(cache)}
           \cup {MapGet(cache', w) : w \in MapKeys(cache')}

\* C30: under every interleaving of two callers' searches and scans with
\* merges and invalidations, a step leaves the cached list of a root absent,
\* as it was, equal to the whole list of a scan that finishes in that step,
\* or equal to the old list with all pending updates merged; and what a call
\* collects in a step is made of whole cached lists only
C30_IndexReplacedWholesale ==
    [][/\ \A r \in Roots :
            \/ ~MapHas(cache', r)
            \/ MapHas(cache, r) /\ MapGet(cache', r) = MapGet(cache, r)
            \/ \E c \in ConcurrentCalls :
                  /\ FinishesScanOf(c, r)
                  /\ MapGet(cache', r) = ScanToEnd(r, scans[c].stack)
            \/ /\ MapHas(cache, r)
               /\ r \in DOMAIN pendingUpdates
               /\ r \notin DOMAIN pendingUpdates'
               /\ MapGet(cache', r) = Merged(MapGet(cache, r), pendingUpdates[r])
       /\ \A c \in ConcurrentCalls :
            \E base \in {<<>>, scans[c].out} : \E x, y \in WholeLists :
                scans'[c].out = base \o x \o y]_vars

\* a call is at the last readdir of its scan of a root for which another
\* call has stored a list meanwhile, one that differs from its own
C30_Witness ==
    \E c \in ConcurrentCalls :
        /\ scans[c].pc = "readdir"
        /\ scans[c].idx = 1
        /\ MapHas(cache, Root1)
        /\ Len(scans[c].stack) = 2
        /\ scans[c].stack[1].files # <<>>
        /\ MapGet(cache, Root1) # ScanToEnd(Root1, scans[c].stack)

-----------------------------------------------------------------------------
(* Direct calls of FuzzySearcher.search, and of the scoring of               *)
(* getMatchingFiles on a given file list, for bounded queries and paths      *)

MaxQueryLen == 3     \* longest query drawn from the alphabet

\* the strings of at most n characters of an alphabet
StringsUpTo(alphabet, n) == UNION {[1..k -> alphabet] : k \in 0..n}

\* the queries typed: a letter, another letter and a symbol that separates
\* query parts, in every arrangement
FuzzyQueries == StringsUpTo({"a", "b", "_"}, MaxQueryLen)

\* candidate paths: plain, upper case, symbols, nesting, file types, no match
FuzzyPaths == {
    <<"a">>,
    <<"A">>,
    <<"a", "b">>,
    <<"a", "_", "b">>,
    <<"z", "a">>,
    <<"a", "/", "z">>,
    <<"s", "/", "a">>,
    <<"b", "/", "a", "_", "b">>,
    <<"a", ".", "t", "s">>}

\* the lists of one path or of two different paths of a set, in either order
ListsOf(paths) ==
    {<<p>> : p \in paths}
        \cup {<<pq[1], pq[2]>> : pq \in {pq \in paths \X paths : pq[1] # pq[2]}}

FuzzyFileLists == ListsOf(FuzzyPaths)

\* the file lists a scan hands to getMatchingFiles: files of several types
ScannedFileLists ==
    ListsOf({<<"a">>, <<"a", ".", "t", "s">>, <<"a", ".", "m", "d">>, <<"s", "/", "a">>, <<"z", "a">>})

\* three files of equal fuzzy score for the query "a", of three file types
WeightedFileLists ==
    {<<<<"a", ".", "b">>, <<"a", ".", "m", "d">>, <<"a", ".", "t", "s">>>>,
     <<<<"a", ".", "t", "s">>, <<"a", ".", "m", "d">>, <<"a", ".", "b">>>>}

\* the queries a query refines: its prefixes
Prefixes(query) == {SubSeq(query, 1, k) : k \in 0..Len(query)}

Extra == <<"_", "e", "x", "t", "r", "a">>

\* the candidates of the repository's normalized-search test
RecipeMenuQuery == <<"r", "e", "c", "i", "p", "e", "m", "e", "n", "u">>
RecipeMenuPath ==
    <<"l", "i", "b", "/", "m", "o", "d", "e", "l", "/", "r", "e", "c", "i", "p", "e", "_", "m", "e", "n", "u", ".", "c", "o", "d", "e", "g", "e", "n", ".", "d", "a", "r", "t">>
UnrelatedPath ==
    <<"l", "i", "b", "/", "u", "n", "r", "e", "l", "a", "t", "e", "d", "_", "f", "i", "l", "e", ".", "d", "a", "r", "t">>

\* the arguments of search: every query on every file list, every query on
\* itself and on itself followed by "_extra", and the test's candidates
FuzzyInputs ==
    {[query |-> q, filePaths |-> l] : q \in FuzzyQueries, l \in FuzzyFileLists}
        \cup {[query |-> q, filePaths |-> <<q, q \o Extra>>] : q \in FuzzyQueries \ {<<>>}}
        \cup {[query |-> q, filePaths |-> <<q \o Extra, q>>] : q \in FuzzyQueries \ {<<>>}}
        \cup {[query |-> RecipeMenuQuery, filePaths |-> l] :
                 l \in {<<RecipeMenuPath, UnrelatedPath>>, <<UnrelatedPath, RecipeMenuPath>>,
                        <<RecipeMenuPath>>, <<UnrelatedPath>>}}

\* maxResults: below the number of candidates, and the default
FuzzyMaxResults == {1, DEFAULT_CONFIG.maxResults}

InitFuzzy ==
    /\ InitLRUIdle
    /\ cache = <<>>
    /\ maxSize = 1
    /\ fileWatchers = {}
    /\ pendingUpdates = <<>>
    /\ updateDebounceTimers = <<>>
    /\ disk = [r \in Roots |-> {}]
    /\ scans = [c \in Calls |-> IdleScan]
    /\ sinceEvent = [r \in Roots |-> debounceDelay]
    /\ mustRescan = [r \in Roots |-> FALSE]
    /\ events = 0
    /\ config \in {[DEFAULT_CONFIG EXCEPT !.maxResults = n] : n \in FuzzyMaxResults}
    /\ gitignores = <<>>
    /\ unreadable = {}
    /\ probe = NoProbe
    /\ validityDuration = Undefined
    /\ listeners = <<>>
    /\ disposables = {"configWatcher"}
    /\ lastChange = NoChange
    /\ sinceSet = [r \in Roots |-> 0]
    /\ searchCache = <<>>
    /\ searches = [c \in Calls |-> IdleSearch]
    /\ listening = TRUE
    /\ staleQueries = {}

\* new FuzzySearcher({caseInsensitive}).search(query, filePaths, maxResults),
\* the first call made
Search(caseInsensitive, query, filePaths, maxResults) ==
    /\ probe = NoProbe
    /\ probe' = [fn |-> "search", caseInsensitive |-> caseInsensitive, query |-> query,
                 filePaths |-> filePaths, maxResults |-> maxResults,
                 result |-> FuzzySearch(caseInsensitive, query, filePaths, maxResults)]
    /\ UNCHANGED <<lruVars, cacheVars, envVars, histVars, cfgVars, searchVars, validityDuration, sinceSet,
                   mgrVars>>

\* getMatchingFiles(query) from the return of scanWorkspace with allFiles to
\* its own return, lines 445-477: what it caches and what it returns
ScoreScanned(query, allFiles) ==
    /\ probe = NoProbe
    /\ probe' = [fn |-> "miss", query |-> query, filePaths |-> allFiles,
                 maxResults |-> config.maxResults,
                 cached |-> MissMatches(query, allFiles),
                 result |-> Slice(MissMatches(query, allFiles), config.maxResults)]
    /\ UNCHANGED <<lruVars, cacheVars, envVars, histVars, cfgVars, searchVars, validityDuration, sinceSet,
                   mgrVars>>

\* getMatchingFiles(query) answered from the matches cached for cachedQuery
\* over allFiles, lines 412-415
ScoreCached(cachedQuery, query, allFiles) ==
    /\ probe = NoProbe
    /\ probe' = [fn |-> "hit", query |-> query, filePaths |-> allFiles,
                 maxResults |-> config.maxResults,
                 result |-> NarrowCached(MissMatches(cachedQuery, allFiles), query)]
    /\ UNCHANGED <<lruVars, cacheVars, envVars, histVars, cfgVars, searchVars, validityDuration, sinceSet,
                   mgrVars>>

NextFuzzy ==
    \/ /\ probe = NoProbe
       /\ \E caseInsensitive \in BOOLEAN : \E in \in FuzzyInputs :
             Search(caseInsensitive, in.query, in.filePaths, config.maxResults)
    \/ /\ probe = NoProbe
       /\ \E query \in FuzzyQueries : \E allFiles \in ScannedFileLists \cup WeightedFileLists :
             ScoreScanned(query, allFiles)
    \/ /\ probe = NoProbe
       /\ \E query \in FuzzyQueries : \E cachedQuery \in Prefixes(query) :
             \E allFiles \in ScannedFileLists : ScoreCached(cachedQuery, query, allFiles)

SpecFuzzy == InitFuzzy /\ [][NextFuzzy]_vars

\* the matches of a path among the results, in order
MatchesOf(result, path) == SelectSeq(result, LAMBDA m : m.path = path)

\* C21: for every non-empty query q, search ranks the candidate q with a
\* score strictly greater than the score of the candidate q followed by
\* "_extra"
C21_ExactAboveExtra ==
    (/\ probe.fn = "search"
     /\ probe.query # <<>>
     /\ Range(probe.filePaths) = {probe.query, probe.query \o Extra}
     /\ probe.maxResults >= 2)
        => LET exact == MatchesOf(probe.result, probe.query)
               extra == MatchesOf(probe.result, probe.query \o Extra)
           IN  /\ Len(exact) = 1
               /\ extra # <<>> => RatGt(exact[1].score, extra[1].score)

\* query is an ordered subsequence of target
RECURSIVE IsSubsequence(_, _)
IsSubsequence(query, target) ==
    IF query = <<>> THEN TRUE
    ELSE IF target = <<>> THEN FALSE
    ELSE IF Head(query) = Head(target) THEN IsSubsequence(Tail(query), Tail(target))
    ELSE IsSubsequence(query, Tail(target))

\* a string without its non-alphanumeric characters, in lower case
Stripped(str) ==
    ToLowerCase(SelectSeq(str, LAMBDA ch :
        ch \in Range(LowerCase) \cup Range(UpperCase) \cup Digits))

ResultPaths(result) == {result[i].path : i \in 1..Len(result)}

\* C23: a candidate whose symbol-stripped path contains the non-empty
\* symbol-stripped query as an ordered subsequence is returned as a match
\* (when maxResults leaves room for every candidate), and 'recipemenu' ranks
\* lib/model/recipe_menu.codegen.dart first, above lib/unrelated_file.dart
C23_SymbolStrippedMatch ==
    probe.fn = "search" =>
        /\ \A i \in 1..Len(probe.filePaths) :
              (/\ Stripped(probe.query) # <<>>
               /\ IsSubsequence(Stripped(probe.query), Stripped(probe.filePaths[i]))
               /\ probe.maxResults >= Len(probe.filePaths))
                  => probe.filePaths[i] \in ResultPaths(probe.result)
        /\ (probe.query = RecipeMenuQuery /\ RecipeMenuPath \in Range(probe.filePaths))
              => /\ probe.result # <<>>
                 /\ probe.result[1].path = RecipeMenuPath
                 /\ \A i \in 1..Len(probe.result) :
                       probe.result[i].path = UnrelatedPath
                           => RatGt(probe.result[1].score, probe.result[i].score)

\* a candidate is returned that contains the query only once the symbols of
\* both are removed
C23_Witness ==
    /\ probe.fn = "search"
    /\ \E i \in 1..Len(probe.filePaths) :
          /\ ~IsSubsequence(ToLowerCase(probe.query), ToLowerCase(probe.filePaths[i]))
          /\ Stripped(probe.query) # <<>>
          /\ IsSubsequence(Stripped(probe.query), Stripped(probe.filePaths[i]))
          /\ probe.filePaths[i] \in ResultPaths(probe.result)

\* C24: the results of a search for a non-empty query (the empty query
\* keeps index order) are ordered by descending score, and of two results
\* with equal score the one with the shorter path comes first
C24_RankedShorterFirst ==
    (probe.fn \in {"search", "miss", "hit"} /\ probe.query # <<>>) =>
        \A i, j \in 1..Len(probe.result) :
            i < j =>
                /\ ~RatGt(probe.result[j].score, probe.result[i].score)
                /\ probe.result[i].score = probe.result[j].score
                      => Len(probe.result[i].path) <= Len(probe.result[j].path)

\* C25: every sequence a search returns (FuzzySearcher.search, and
\* getMatchingFiles on a cache miss and on a cache hit) has at most maxResults
\* elements and is sorted by non-increasing score
C25_CappedAndSorted ==
    probe.fn \in {"search", "miss", "hit"} =>
        /\ Len(probe.result) <= probe.maxResults
        /\ \A i \in 1..Len(probe.result) : ~IsNaN(probe.result[i].score)
        /\ \A i, j \in 1..Len(probe.result) :
              i < j => ~RatGt(probe.result[j].score, probe.result[i].score)

\* getMatchingFiles has returned two matches that the file type weights put
\* in another order than FuzzySearcher.search had them in
C25_Witness ==
    /\ probe.fn = "miss"
    /\ Len(probe.result) = 2
    /\ RatGt(probe.result[1].score, probe.result[2].score)
    /\ probe.result[1].path = probe.filePaths[2]
    /\ Paths(FuzzySearch(TRUE, probe.query, probe.filePaths, 2)) = probe.filePaths

\* getMatchingFiles' final score of a file by itself: the score of
\* FuzzySearcher.search multiplied by the file type weight (<<>> if no match)
FinalScores(query, filePath) ==
    ApplyFileTypeWeights(FuzzySearch(TRUE, query, <<filePath>>, 1))

\* C31: on a cache miss getMatchingFiles returns the maxResults matching files
\* with the highest final score (fuzzy score times file type weight): no
\* matching file left out has a strictly higher final score than a returned one
C31_TopByFinalScore ==
    (probe.fn = "miss" /\ probe.query # <<>>) =>
        \A i \in 1..Len(probe.filePaths) :
            (/\ FinalScores(probe.query, probe.filePaths[i]) # <<>>
             /\ probe.filePaths[i] \notin ResultPaths(probe.result))
                => \A j \in 1..Len(probe.result) :
                      ~RatGt(FinalScores(probe.query, probe.filePaths[i])[1].score,
                             probe.result[j].score)

\* the passes of FuzzySearcher.search under which the whole query is an
\* ordered subsequence of the candidate: the case-normalized filename or
\* path, or the symbol-stripped query in the symbol-stripped filename or path
WholeQueryOccurs(caseInsensitive, query, filePath) ==
    LET fold(str) == IF caseInsensitive THEN ToLowerCase(str) ELSE str
    IN  \/ IsSubsequence(fold(query), fold(Basename(filePath)))
        \/ IsSubsequence(fold(query), fold(filePath))
        \/ /\ Stripped(query) # <<>>
           /\ \/ IsSubsequence(Stripped(query), Stripped(Basename(filePath)))
              \/ IsSubsequence(Stripped(query), Stripped(filePath))

\* the letters and digits of a string, in its own case
AlphanumericOf(str) ==
    SelectSeq(str, LAMBDA ch : ch \in Range(LowerCase) \cup Range(UpperCase) \cup Digits)

\* with caseInsensitive = false a candidate that matches the query only when
\* case is ignored is not returned
CaseSensitiveWhenOff ==
    (probe.fn = "search" /\ probe.query # <<>> /\ ~probe.caseInsensitive) =>
        \A i \in 1..Len(probe.result) :
            WholeQueryOccurs(TRUE, probe.query, probe.result[i].path)
                => IsSubsequence(AlphanumericOf(probe.query), probe.result[i].path)

\* with caseInsensitive = true a candidate that holds the query when case is
\* ignored is returned (when maxResults leaves room for every candidate)
CaseIgnoredWhenOn ==
    (/\ probe.fn = "search"
     /\ probe.query # <<>>
     /\ probe.caseInsensitive
     /\ Len(probe.filePaths) <= probe.maxResults) =>
        \A i \in 1..Len(probe.filePaths) :
            IsSubsequence(ToLowerCase(probe.query), ToLowerCase(probe.filePaths[i]))
                => probe.filePaths[i] \in ResultPaths(probe.result)

\* C32: matching follows caseInsensitive: when it is false a candidate
\* matches only where the query characters are in the path with identical
\* case, when it is true matching ignores case
C32_CaseFollowsConfiguration == CaseSensitiveWhenOff /\ CaseIgnoredWhenOn

\* C27: for a non-empty query, search returns a candidate only if the whole
\* query occurs in it as an ordered subsequence in at least one pass
C27_OnlyWholeQueryMatches ==
    (probe.fn = "search" /\ probe.query # <<>>) =>
        \A i \in 1..Len(probe.result) :
            WholeQueryOccurs(probe.caseInsensitive, probe.query, probe.result[i].path)

\* positions are the places of an increasing subsequence of path that spells
\* the start of a query variant, case-insensitively; positions count from 0
SpellsVariant(positions, path, variant) ==
    /\ Len(positions) <= Len(variant)
    /\ \A i \in 1..Len(positions) :
          /\ positions[i] \in 0..(Len(path) - 1)
          /\ i > 1 => positions[i - 1] < positions[i]
          /\ ToLowerCase(<<path[positions[i] + 1]>>) = ToLowerCase(<<variant[i]>>)

\* C28: the matched positions of every match returned for a non-empty query
\* are strictly increasing valid indices into the match's path, spell the
\* query variant that produced the match (the query or the symbol-stripped
\* query) and are no more than the query has characters
C28_MatchedPositions ==
    (probe.fn = "search" /\ probe.query # <<>>) =>
        \A i \in 1..Len(probe.result) :
            LET m == probe.result[i]
            IN  /\ Len(m.matches) <= Len(probe.query)
                /\ \/ SpellsVariant(m.matches, m.path, probe.query)
                   \/ SpellsVariant(m.matches, m.path, Stripped(probe.query))

\* the directory segments of a path: all segments but the filename
DirectoriesOf(filePath) ==
    LET segments == SplitSlash(filePath)
    IN  {segments[i] : i \in 1..(Len(segments) - 1)}

\* the place of a path among the results, 0 when it is not among them
RankOf(result, path) ==
    IF \E i \in 1..Len(result) : result[i].path = path
    THEN CHOOSE i \in 1..Len(result) : result[i].path = path
    ELSE 0

\* C29: when the query occurs contiguously in the filename of one candidate
\* and, in another, in a directory segment but not in the filename, the first
\* candidate is ranked above the second
C29_FilenameAbovePathOnly ==
    (/\ probe.fn = "search"
     /\ probe.query # <<>>
     /\ Len(probe.filePaths) = 2
     /\ probe.maxResults >= 2) =>
        \A i, j \in 1..2 :
            LET q == ToLowerCase(probe.query)
                first == probe.filePaths[i]
                second == probe.filePaths[j]
            IN  (/\ Includes(ToLowerCase(Basename(first)), q)
                 /\ \E dir \in DirectoriesOf(second) : Includes(ToLowerCase(dir), q)
                 /\ ~IsSubsequence(q, ToLowerCase(Basename(second))))
                    => /\ RankOf(probe.result, first) > 0
                       /\ RankOf(probe.result, second) > 0
                             => RankOf(probe.result, first) < RankOf(probe.result, second)

-----------------------------------------------------------------------------
(* Searches between the merges of the watcher: no invalidation                *)

InitMergeSearch ==
    /\ InitLRUIdle
    /\ cache = <<>>
    /\ maxSize = MaxCap
    /\ fileWatchers = {}
    /\ pendingUpdates = <<>>
    /\ updateDebounceTimers = <<>>
    /\ disk = [r \in Roots |-> IF r = Root1 THEN {<<"s", "/", "b">>} ELSE InitialFiles(r)]
    /\ scans = [c \in Calls |-> IdleScan]
    /\ sinceEvent = [r \in Roots |-> debounceDelay]
    /\ mustRescan = [r \in Roots |-> FALSE]
    /\ events = 0
    /\ config = DEFAULT_CONFIG
    /\ gitignores = <<>>
    /\ unreadable = {}
    /\ probe = NoProbe
    /\ validityDuration = Undefined
    /\ listeners = <<>>
    /\ disposables = {"configWatcher"}
    /\ lastChange = NoChange
    /\ sinceSet = [r \in Roots |-> 0]
    /\ searchCache = <<>>
    /\ searches = [c \in Calls |-> IdleSearch]
    /\ listening = TRUE
    /\ staleQueries = {}

NextMergeSearch ==
    \/ \E c \in Calls : \E query \in {<<"a">>, <<"b">>} :
          GetMatchingFiles(c, query, FALSE, FALSE)
    \/ \E c \in Calls : ScanReaddir(c)
    \/ FileCreated(Root1, <<"a">>)
    \/ FileDeleted(Root1, <<"a">>)
    \/ Tick
    \/ \E r \in Roots : TimerFires(r)

SpecMergeSearch == InitMergeSearch /\ [][NextMergeSearch]_vars

\* the entries of the cached lists that match the query
MatchingIndexed(c, query) ==
    {p \in UNION {Range(CachedFiles(c, r)) : r \in MapKeys(c)} :
        FinalScores(query, p) # <<>>}

\* C38: a search answered from the query cache returns what the index holds
\* at that moment: no path that a merge has removed from the index, and every
\* matching path that a merge has added (the matching paths are fewer than
\* maxResults)
C38_QueryCacheFollowsMerges ==
    [][\A c \in Calls :
         (/\ searches'[c] # searches[c]
          /\ searches'[c].pc = "returned"
          /\ searches'[c].hit
          /\ \A r \in Roots : HasCachedFiles(cache', r))
            => Range(Paths(searches'[c].result))
                  = MatchingIndexed(cache', searches'[c].query)]_vars

-----------------------------------------------------------------------------
(* Searches and nothing else: no file event, no configuration change          *)

NextRepeat ==
    \/ \E c \in Calls : \E query \in Queries : GetMatchingFiles(c, query, FALSE, FALSE)
    \/ \E c \in Calls : ScanReaddir(c)

SpecRepeat == InitSearch /\ [][NextRepeat]_vars

\* C39: a call of getMatchingFiles that follows a returned call with the same
\* query, nothing having changed in between, returns the same sequence of
\* matches: the same paths in the same order with the same scores
C39_RepeatedSearchIsIdentical ==
    [][\A c \in Calls :
         (/\ searches[c].pc = "returned"
          /\ searches'[c].pc = "returned"
          /\ searches'[c].query = searches[c].query)
            => searches'[c].result = searches[c].result]_vars

-----------------------------------------------------------------------------
(* The ConfigurationManager and its listeners (src/config.ts)                 *)

\* the settings the user switches between
ManagerConfigs == {DEFAULT_CONFIG, [DEFAULT_CONFIG EXCEPT !.maxResults = 10]}

\* Array.prototype.indexOf, 0 when the element is absent
IndexOf(s, e) ==
    IF e \in Range(s) THEN CHOOSE i \in 1..Len(s) : s[i] = e /\ \A j \in 1..(i - 1) : s[j] # e
    ELSE 0

\* the Disposable that onConfigChange returns, disposed
DisposeListener(ls, l) ==
    LET index == IndexOf(ls, l) IN
    IF index >= 1 THEN SubSeq(ls, 1, index - 1) \o SubSeq(ls, index + 1, Len(ls)) ELSE ls

\* for (const listener of this.listeners) listener(this.config): the array
\* iterator reads this.listeners[i] and its length anew at every turn
RECURSIVE notifyListeners(_, _, _, _)
notifyListeners(i, ls, received, cfg) ==
    IF i > Len(ls) THEN [listeners |-> ls, received |-> received]
    ELSE LET listener == ls[i] IN
         notifyListeners(i + 1,
                         IF listener \in DisposesItself THEN DisposeListener(ls, listener)
                         ELSE ls,
                         [received EXCEPT ![listener] = Append(@, cfg)],
                         cfg)

InitConfig ==
    /\ InitLRUIdle
    /\ InitIdle

OnConfigChange(listener) ==
    /\ listener \notin Range(listeners)
    /\ listeners' = Append(listeners, listener)
    /\ UNCHANGED <<lruVars, cacheVars, envVars, histVars, cfgVars, searchVars,
                   probe, validityDuration, sinceSet, disposables, lastChange>>

DisposeSubscription(listener) ==
    /\ listeners' = DisposeListener(listeners, listener)
    /\ UNCHANGED <<lruVars, cacheVars, envVars, histVars, cfgVars, searchVars,
                   probe, validityDuration, sinceSet, disposables, lastChange>>

\* the handler of vscode.workspace.onDidChangeConfiguration
ConfigurationChanged(affectsConfiguration, newConfig) ==
    /\ "configWatcher" \in disposables
    /\ IF affectsConfiguration
       THEN LET run == notifyListeners(1, listeners, [l \in Listeners |-> <<>>], newConfig)
            IN  /\ config' = newConfig
                /\ listeners' = run.listeners
                /\ lastChange' = [registered |-> Range(listeners),
                                  received |-> run.received]
       ELSE UNCHANGED <<config, listeners, lastChange>>
    /\ UNCHANGED <<lruVars, cacheVars, envVars, histVars, gitignores, unreadable,
                   searchVars, probe, validityDuration, sinceSet, disposables>>

ManagerDispose ==
    /\ disposables' = {}
    /\ listeners' = <<>>
    /\ UNCHANGED <<lruVars, cacheVars, envVars, histVars, cfgVars, searchVars,
                   probe, validityDuration, sinceSet, lastChange>>

NextConfig ==
    \/ \E listener \in Listeners : OnConfigChange(listener)
    \/ \E listener \in Listeners : DisposeSubscription(listener)
    \/ \E affectsConfiguration \in BOOLEAN : \E newConfig \in ManagerConfigs :
          ConfigurationChanged(affectsConfiguration, newConfig)
    \/ ManagerDispose

SpecConfig == InitConfig /\ [][NextConfig]_vars

\* C40: at a configuration change every listener registered at that moment
\* receives the new configuration exactly once, a listener that disposes its
\* own subscription in its callback or not, and a listener that is not
\* registered receives nothing
C40_EveryListenerNotifiedOnce ==
    \A l \in Listeners :
        lastChange.received[l] = IF l \in lastChange.registered THEN <<config>> ELSE <<>>

-----------------------------------------------------------------------------
(* A FileCache on its own, constructed as the cache tests construct it:      *)
(* new FileCache(maxSize, validityDuration).  The constructor declares one   *)
(* parameter; a second argument is dropped.                                  *)

\* the durations a cache is constructed with (the test uses 100)
ValidityDurations == {100, 2 * TickMs}

\* the lists the tests store
TestFileLists == {<<<<"a">>>>, <<<<"a">>, <<"s", "/", "b">>>>}

InitValidity ==
    /\ InitLRUIdle
    /\ cache = <<>>
    /\ maxSize \in 1..MaxCap
    /\ fileWatchers = {}
    /\ pendingUpdates = <<>>
    /\ updateDebounceTimers = <<>>
    /\ disk = [r \in Roots |-> {}]
    /\ scans = [c \in Calls |-> IdleScan]
    /\ sinceEvent = [r \in Roots |-> debounceDelay]
    /\ mustRescan = [r \in Roots |-> FALSE]
    /\ events = 0
    /\ config = DEFAULT_CONFIG
    /\ gitignores = <<>>
    /\ unreadable = {}
    /\ probe = NoProbe
    /\ validityDuration \in ValidityDurations
    /\ listeners = <<>>
    /\ disposables = {"configWatcher"}
    /\ lastChange = NoChange
    /\ sinceSet = [r \in Roots |-> 0]
    /\ searchCache = <<>>
    /\ searches = [c \in Calls |-> IdleSearch]
    /\ listening = TRUE
    /\ staleQueries = {}

\* cache.setCachedFiles(w, files)
TestSetCachedFiles(w, files) ==
    /\ LET set == SetCachedFiles(cache, fileWatchers, w, files) IN
          /\ cache' = set[1]
          /\ fileWatchers' = set[2]
    /\ sinceSet' = [sinceSet EXCEPT ![w] = 0]
    /\ probe' = [fn |-> "setCachedFiles", workspacePath |-> w, files |-> files]
    /\ UNCHANGED <<lruVars, maxSize, pendingUpdates, updateDebounceTimers, envVars,
                   histVars, cfgVars, searchVars, validityDuration,
                   mgrVars>>

\* cache.getCachedFiles(w)
TestGetCachedFiles(w) ==
    /\ cache' = LRUCacheGet(cache, w)
    /\ probe' = [fn |-> "getCachedFiles", workspacePath |-> w, result |-> MapGet(cache, w)]
    /\ UNCHANGED <<lruVars, maxSize, fileWatchers, pendingUpdates, updateDebounceTimers,
                   envVars, histVars, cfgVars, searchVars, validityDuration, sinceSet,
                   mgrVars>>

\* time passes (no timer is armed: no file notification arrives)
TestElapse ==
    /\ sinceSet' = [r \in Roots |->
                       IF sinceSet[r] + TickMs < 3 * TickMs THEN sinceSet[r] + TickMs
                       ELSE 3 * TickMs]
    /\ probe' = NoProbe
    /\ UNCHANGED <<lruVars, cacheVars, envVars, histVars, cfgVars, searchVars, validityDuration,
                   mgrVars>>

NextValidity ==
    \/ \E w \in Roots, files \in TestFileLists : TestSetCachedFiles(w, files)
    \/ \E w \in Roots : TestGetCachedFiles(w)
    \/ TestElapse

SpecValidity == InitValidity /\ [][NextValidity]_vars

\* C11: getCachedFiles(w) right after setCachedFiles(w, files) returns files;
\* getCachedFiles(w) more than validityDuration ms after the last
\* setCachedFiles(w) returns undefined.
C11_ExpiresAfterValidity ==
    [][\A w \in Roots :
         TestGetCachedFiles(w) =>
            /\ (probe.fn = "setCachedFiles" /\ probe.workspacePath = w) =>
                  probe'.result = probe.files
            /\ sinceSet[w] > validityDuration => probe'.result = Undefined]_vars

-----------------------------------------------------------------------------
(* Stand-alone LRUCache: every public operation as an action *)

\* new LRUCache(maxSize)
InitLRU ==
    /\ lru = <<>>
    /\ lruMax \in 1..MaxCap
    /\ lruStamp = [k \in LruKeys |-> 0]
    /\ lruClock = 0
    /\ lruRet = Undefined
    /\ InitIdle

LruGet(k) ==
    /\ lruClock < MaxLruOps
    /\ lru' = LRUCacheGet(lru, k)
    /\ lruRet' = MapGet(lru, k)
    /\ lruClock' = lruClock + 1
    /\ lruStamp' = IF MapHas(lru, k) THEN [lruStamp EXCEPT ![k] = lruClock + 1]
                   ELSE lruStamp
    /\ UNCHANGED lruMax
    /\ UNCHANGED <<cacheVars, envVars, histVars, cfgVars, searchVars, testVars>>

LruSet(k, v) ==
    /\ lruClock < MaxLruOps
    /\ lru' = LRUCacheSet(lru, k, v, lruMax)
    /\ lruRet' = Undefined
    /\ lruClock' = lruClock + 1
    /\ lruStamp' = [lruStamp EXCEPT ![k] = lruClock + 1]
    /\ UNCHANGED lruMax
    /\ UNCHANGED <<cacheVars, envVars, histVars, cfgVars, searchVars, testVars>>

LruHas(k) ==
    /\ lruClock < MaxLruOps
    /\ lruRet' = IF MapHas(lru, k) THEN "true" ELSE "false"
    /\ lruClock' = lruClock + 1
    /\ UNCHANGED <<lru, lruMax, lruStamp>>
    /\ UNCHANGED <<cacheVars, envVars, histVars, cfgVars, searchVars, testVars>>

LruClear ==
    /\ lruClock < MaxLruOps
    /\ lru' = <<>>
    /\ lruRet' = Undefined
    /\ lruClock' = lruClock + 1
    /\ UNCHANGED <<lruMax, lruStamp>>
    /\ UNCHANGED <<cacheVars, envVars, histVars, cfgVars, searchVars, testVars>>

NextLRU ==
    \/ \E k \in LruKeys : LruGet(k)
    \/ \E k \in LruKeys, v \in LruValues : LruSet(k, v)
    \/ \E k \in LruKeys : LruHas(k)
    \/ LruClear

SpecLRU == InitLRU /\ [][NextLRU]_vars

\* the key of the cache whose last get-hit or set is oldest
LruOldest(m) == CHOOSE k \in MapKeys(m) : \A j \in MapKeys(m) : lruStamp[k] <= lruStamp[j]

\* the FileCache holds at most maxSize roots (checked under SpecFileCache)
FileCacheSizeBounded == Len(cache) <= maxSize

\* C9: after any sequence of set/get/has/clear, the number of entries of an
\* LRUCache never exceeds the maxSize it was constructed with.
C9_SizeBounded == Len(lru) <= lruMax

\* a full cache has just taken a new key
C9_Witness == Len(lru) = lruMax /\ lruClock > lruMax /\ lruStamp[lru[Len(lru)].key] = lruClock
              /\ \E k \in LruKeys : lruStamp[k] > 0 /\ ~MapHas(lru, k)

\* C10: a set of a new key into a full cache removes exactly the key whose last
\* get-hit or set is oldest; a set of a new key into a cache with room removes
\* nothing; a set of an existing key replaces its value and keeps the size.
C10_EvictsLeastRecentlyUsed ==
    [][\A k \in LruKeys, v \in LruValues :
         LruSet(k, v) =>
            /\ MapGet(lru', k) = v
            /\ IF MapHas(lru, k)
               THEN MapKeys(lru') = MapKeys(lru) /\ Len(lru') = Len(lru)
               ELSE IF Len(lru) < lruMax
               THEN MapKeys(lru') = MapKeys(lru) \cup {k}
               ELSE MapKeys(lru') = (MapKeys(lru) \cup {k}) \ {LruOldest(lru)}]_vars

\* a full cache of two keys has just overflowed: the key used longest ago is
\* gone and the key used after it has survived
C10_Witness ==
    /\ lruMax = 2 /\ Len(lru) = 2
    /\ lruStamp[lru[2].key] = lruClock
    /\ \E k \in LruKeys : /\ ~MapHas(lru, k)
                          /\ lruStamp[k] > 0
                          /\ lruStamp[k] < lruStamp[lru[1].key]

====
